---- MODULE Spec2Model ----
(***************************************************************************)
(* The chat relay of hyper-atlas-prototype: one chat turn from the client  *)
(* component (src/components/Chat.tsx, sendMessage) through POST /api/chat *)
(* (src/app/api/chat/route.ts) and back over the event stream.             *)
(*                                                                         *)
(* Spec follows one turn of the component and the route together, with the *)
(* transport cutting the stream into reads at any offset.  RouteSpec is    *)
(* the route alone, serving one request of any caller.  AbandonSpec adds   *)
(* a client that goes away, CacheSpec and ResolveSpec are lib/fileMapping, *)
(* CodecSpec is the framing of one event, InputSpec the input of the       *)
(* component over several submits (InputLiveSpec: with every request and   *)
(* stream terminating), ConvApiSpec the /api/conversations endpoints,      *)
(* ClientSpec the read loop of the component against any response body,    *)
(* RequestSpec the request from the component to the upstream call.        *)
(*                                                                         *)
(* Text is a sequence of one-character strings.  A JSON payload is written *)
(* as the characters  { tag ... }  where tag stands for the value of the   *)
(* "type" member: t (text), c (citations), i (title), e (error), d (done). *)
(***************************************************************************)
EXTENDS Integers, Sequences, FiniteSets, TLC

\* ------------------------------------------------------------------ bounds
MaxUnits == 2   \* upstream units consumed in one turn
MaxEntries == 2 \* entries of a mapping
MaxCallers == 2 \* calls of resolveSharePointUrl, which may overlap
MaxTicks == 2   \* steps of the clock
MaxInvalidations == 1
MaxPayload == 2 \* characters of the payload of an event under study
MaxSubmits == 3 \* submits of the input that are followed
MaxPatches == 1 \* renames of one conversation
MaxFrames == 2  \* frames of a response body under study

\* --------------------------------------------------------------- constants
NoUser == "nouser"          \* auth() resolves no userId
NoConv == "noconv"          \* the request carries no conversationId
NoTitle == <<>>             \* conversations.title is null
NoCtx == "noctx"            \* a grounding chunk without retrievedContext
Users == {"u1", "u2"}
ConvId == "c1"              \* the one conversation of the store, owned by u1
ConvOwner == "u1"

NL == "\n"
SP == " "
QUOTE == "\""
BSL == "\\"

\* `data: `
Prefix == <<"d", "a", "t", "a", ":", SP>>
\* "\n\n"
Delim == <<NL, NL>>

\* "Sorry, I encountered an error. Please try again."
ErrorContent == <<"S", "o", "r", "r", "y">>
\* "New conversation"
DefaultTitle == <<"N">>
\* "Unknown Source"
UnknownSource == "U"

\* ------------------------------------------------------------ sequences
Drop(s, n) == SubSeq(s, n + 1, Len(s))
Take(s, n) == SubSeq(s, 1, n)

StartsWith(s, p) == Len(s) >= Len(p) /\ Take(s, Len(p)) = p

RECURSIVE Flatten(_)
Flatten(ss) == IF ss = <<>> THEN <<>> ELSE Head(ss) \o Flatten(Tail(ss))

\* ------------------------------------------------------------ events
TextEvent(text) == [type |-> "text", content |-> text, citations |-> <<>>]
CitationsEvent(cs) == [type |-> "citations", content |-> <<>>, citations |-> cs]
TitleEvent(title) == [type |-> "title", content |-> title, citations |-> <<>>]
ErrorEvent == [type |-> "error", content |-> <<>>, citations |-> <<>>]
DoneEvent == [type |-> "done", content |-> <<>>, citations |-> <<>>]

\* ------------------------------------------------------------ encoding
\* a stringify that writes every character as it is
EscapeCharRaw(c) == <<c>>

\* JSON.stringify of a string value: quotes, backslashes and newlines are
\* escaped, so the payload holds no raw newline.
EscapeChar(c) ==
  IF c = NL THEN <<BSL, "n">>
  ELSE IF c = QUOTE THEN <<BSL, QUOTE>>
  ELSE IF c = BSL THEN <<BSL, BSL>>
  ELSE <<c>>

RECURSIVE Escape(_)
Escape(s) == IF s = <<>> THEN <<>> ELSE EscapeChar(Head(s)) \o Escape(Tail(s))

JsonString(s) == <<QUOTE>> \o Escape(s) \o <<QUOTE>>

IdChar(n) == IF n = 1 THEN "1" ELSE IF n = 2 THEN "2" ELSE IF n = 3 THEN "3" ELSE "9"
IdOf(c) == IF c = "1" THEN 1 ELSE IF c = "2" THEN 2 ELSE IF c = "3" THEN 3 ELSE 9

\* one citation object: ( id sourceTitle sourceUri )
JsonCitation(c) == <<"(", IdChar(c.id), c.sourceTitle, c.sourceUri, ")">>

RECURSIVE JsonCitationList(_)
JsonCitationList(cs) ==
  IF cs = <<>> THEN <<>> ELSE JsonCitation(Head(cs)) \o JsonCitationList(Tail(cs))

JsonStringify(e) ==
  IF e.type = "text" THEN <<"{", "t">> \o JsonString(e.content) \o <<"}">>
  ELSE IF e.type = "citations"
    THEN <<"{", "c", "[">> \o JsonCitationList(e.citations) \o <<"]", "}">>
  ELSE IF e.type = "title" THEN <<"{", "i">> \o JsonString(e.content) \o <<"}">>
  ELSE IF e.type = "error" THEN <<"{", "e", "}">>
  ELSE <<"{", "d", "}">>

\* `data: ${JSON.stringify(event)}\n\n`
Frame(e) == Prefix \o JsonStringify(e) \o Delim

\* ------------------------------------------------------------ decoding
\* chunk.split("\n\n"): the segments between non-overlapping delimiters,
\* scanned from the left; the last segment is whatever follows the last one.
RECURSIVE SplitFrom(_, _, _)
SplitFrom(s, i, start) ==
  IF i > Len(s) THEN <<SubSeq(s, start, Len(s))>>
  ELSE IF i < Len(s) /\ SubSeq(s, i, i + 1) = Delim
    THEN <<SubSeq(s, start, i - 1)>> \o SplitFrom(s, i + Len(Delim), i + Len(Delim))
  ELSE SplitFrom(s, i + 1, start)

Split(chunk) == SplitFrom(chunk, 1, 1)

IsSpace(c) == c = NL \/ c = SP

RECURSIVE FirstNonSpace(_, _)
FirstNonSpace(s, i) ==
  IF i > Len(s) \/ ~IsSpace(s[i]) THEN i ELSE FirstNonSpace(s, i + 1)

RECURSIVE LastNonSpace(_, _)
LastNonSpace(s, i) ==
  IF i = 0 \/ ~IsSpace(s[i]) THEN i ELSE LastNonSpace(s, i - 1)

\* String.prototype.trim
Trim(s) == SubSeq(s, FirstNonSpace(s, 1), LastNonSpace(s, Len(s)))

\* the inside of a JSON string literal: no raw quote or newline, every
\* backslash starts a known escape
RECURSIVE ValidEscaped(_)
ValidEscaped(s) ==
  IF s = <<>> THEN TRUE
  ELSE IF Head(s) = BSL
    THEN Len(s) >= 2 /\ s[2] \in {"n", QUOTE, BSL} /\ ValidEscaped(Drop(s, 2))
  ELSE IF Head(s) \in {QUOTE, NL} THEN FALSE
  ELSE ValidEscaped(Tail(s))

RECURSIVE Unescape(_)
Unescape(s) ==
  IF s = <<>> THEN <<>>
  ELSE IF Head(s) = BSL
    THEN <<(IF s[2] = "n" THEN NL ELSE s[2])>> \o Unescape(Drop(s, 2))
  ELSE <<Head(s)>> \o Unescape(Tail(s))

RECURSIVE ValidCitationList(_)
ValidCitationList(s) ==
  IF s = <<>> THEN TRUE
  ELSE /\ Len(s) >= 5
       /\ s[1] = "("
       /\ s[2] \in {"1", "2", "3", "9"}
       /\ s[5] = ")"
       /\ ValidCitationList(Drop(s, 5))

RECURSIVE ParseCitationList(_)
ParseCitationList(s) ==
  IF s = <<>> THEN <<>>
  ELSE <<[id |-> IdOf(s[2]), sourceTitle |-> s[3], sourceUri |-> s[4]]>>
       \o ParseCitationList(Drop(s, 5))

ParseFailure == [ok |-> FALSE, event |-> DoneEvent]
Parsed(e) == [ok |-> TRUE, event |-> e]

\* a quoted member value between the tag and the closing brace
IsStringPayload(b, tag) ==
  /\ Len(b) >= 5
  /\ b[1] = "{" /\ b[2] = tag /\ b[3] = QUOTE
  /\ b[Len(b) - 1] = QUOTE /\ b[Len(b)] = "}"
  /\ ValidEscaped(SubSeq(b, 4, Len(b) - 2))

StringPayload(b) == Unescape(SubSeq(b, 4, Len(b) - 2))

IsCitationsPayload(b) ==
  /\ Len(b) >= 5
  /\ b[1] = "{" /\ b[2] = "c" /\ b[3] = "["
  /\ b[Len(b) - 1] = "]" /\ b[Len(b)] = "}"
  /\ ValidCitationList(SubSeq(b, 4, Len(b) - 2))

\* JSON.parse: white space around the value is allowed, anything that is not
\* one complete value throws.
JsonParse(payload) ==
  LET b == Trim(payload) IN
  IF b = <<"{", "d", "}">> THEN Parsed(DoneEvent)
  ELSE IF b = <<"{", "e", "}">> THEN Parsed(ErrorEvent)
  ELSE IF IsStringPayload(b, "t") THEN Parsed(TextEvent(StringPayload(b)))
  ELSE IF IsStringPayload(b, "i") THEN Parsed(TitleEvent(StringPayload(b)))
  ELSE IF IsCitationsPayload(b)
    THEN Parsed(CitationsEvent(ParseCitationList(SubSeq(b, 4, Len(b) - 2))))
  ELSE ParseFailure

\* ------------------------------------------------------------ state
VARIABLES
  \* POST /api/chat, one request in flight
  spc,               \* where the handler stands
  req,               \* userId from auth(), and the request body
  response,          \* "none", "stream" (200, event stream) or "failed" (500)
  fullResponse,      \* text accumulator
  citations,         \* citations collected from the upstream units
  wire,              \* characters enqueued on the stream and not yet read
  abandoned,         \* the client has cancelled the response stream
  closed,            \* controller.close() was called
  \* the store
  dbMessages,        \* rows of messages
  dbConv,            \* the row of conversation c1
  \* the Chat component
  messages,          \* the message list last passed to onMessagesUpdate
  isLoading,
  cpc,               \* where sendMessage stands
  sentMessages,      \* `messages` as captured by the running sendMessage
  userMessage,
  accumulatedContent,
  clientCitations,   \* the local `citations` of sendMessage
  listTitle,         \* title last passed to onUpdateTitle
  \* observation
  events,            \* events enqueued in this turn, in order
  unitsSeen,         \* text of the upstream units consumed in this turn
  failed,            \* what went wrong in this turn
  ended,             \* how sendMessage left its try block
  decoded,           \* events the read loop has parsed in this turn, in order
  turn,
  \* resolveSharePointUrl (src/lib/fileMapping.ts)
  lookupTitle,       \* `title`, the argument of the call
  lookupMappings,    \* `mappings`, the snapshot the call resolves against
  resolved,          \* what the call has returned
  \* the mapping cache (src/lib/fileMapping.ts)
  cachedMappings,    \* the cached snapshot, or Null
  cacheTimestamp,
  clock,             \* Date.now()
  bucketSet,         \* S3_MAPPINGS_BUCKET is configured
  lookups,           \* the calls of resolveSharePointUrl, one per caller
  invalidations,     \* how often invalidateMappingsCache has run
  pendingInvalidation, \* no lookup has begun since the last invalidation
  loadedAt,          \* when the last successful load wrote the cache, or 0
  \* the codec of the event stream, one event at a time
  codecEvent,        \* the event under study
  codecFrame,        \* the frame the route writes for it, once written
  codecDecoded,      \* the events the component decodes from that frame
  \* Chat and MessageInput over several submits
  calls,             \* the invocations of sendMessage
  \* /api/conversations
  convRows,          \* the conversations table, by id
  msgRows,           \* the messages table
  apiCall,           \* the request answered last, with its response
  pendingMessages,   \* the GET of messages that has passed its ownership check
  \* the component against any byte stream
  stream,            \* the bytes of the response body
  \* the upstream request
  contents           \* what generateContentStream was called with, <<>> before

vars == <<spc, req, response, fullResponse, citations, wire, closed, abandoned, dbMessages,
          dbConv, messages, isLoading, cpc, sentMessages, userMessage,
          accumulatedContent, clientCitations, listTitle, events, unitsSeen,
          failed, ended, decoded, turn, lookupTitle, lookupMappings,
          resolved, cachedMappings, cacheTimestamp, clock, bucketSet, lookups,
          invalidations, pendingInvalidation, loadedAt, codecEvent, codecFrame,
          codecDecoded, calls, convRows, msgRows, apiCall, pendingMessages,
          stream, contents>>

serverVars == <<spc, req, response, fullResponse, citations, wire, closed,
                abandoned, dbMessages, dbConv, events, unitsSeen, failed>>
clientVars == <<messages, isLoading, cpc, sentMessages, userMessage,
                accumulatedContent, clientCitations, listTitle, ended, decoded,
                turn>>
chatVars == <<serverVars, clientVars, contents>>
resolverVars == <<lookupTitle, lookupMappings, resolved>>
cacheVars == <<cachedMappings, cacheTimestamp, clock, bucketSet, lookups,
               invalidations, pendingInvalidation, loadedAt>>
mappingVars == <<resolverVars, cacheVars>>
codecVars == <<codecEvent, codecFrame, codecDecoded>>
inputVars == <<calls>>
convApiVars == <<convRows, msgRows, apiCall, pendingMessages>>
readerVars == <<stream>>
besideTurn == <<mappingVars, codecVars, inputVars, convApiVars, readerVars>>
besideChat == <<besideTurn, contents>>
besideMapping == <<chatVars, codecVars, inputVars, convApiVars, readerVars>>

\* ------------------------------------------------------------ messages
Msg(role, content, cits) == [role |-> role, content |-> content, citations |-> cits]
UserMsg(content) == Msg("user", content, <<>>)
ErrorMessage == Msg("assistant", ErrorContent, <<>>)
Placeholder == Msg("assistant", <<>>, <<>>)

\* what the user types
Question == <<"q">>

NoRequest == [userId |-> NoUser, conversationId |-> NoConv, message |-> <<>>,
              history |-> <<>>]

\* ------------------------------------------------------------ upstream
\* a grounding chunk; title "" stands for an absent title
Chunk(hasCtx, title, uri) == [hasCtx |-> hasCtx, title |-> title, uri |-> uri]

\* a part of the content of a candidate; a part may have no text
Part(hasText, text) == [hasText |-> hasText, text |-> text]

\* a candidate of a unit: content.parts and groundingMetadata.groundingChunks,
\* either of which may be absent
Candidate(hasParts, parts, hasChunks, chunks) ==
  [hasParts |-> hasParts, parts |-> parts, hasChunks |-> hasChunks, chunks |-> chunks]

\* the units as the upstream model delivers them: the list of candidates,
\* empty when the unit has none
RawUnits ==
  { <<Candidate(TRUE, <<Part(TRUE, <<"a">>)>>, FALSE, <<>>)>>,
    <<Candidate(TRUE, <<Part(TRUE, <<"b">>), Part(FALSE, <<>>), Part(TRUE, <<NL>>)>>,
                TRUE, <<>>)>>,
    <<>>,
    <<Candidate(FALSE, <<>>, FALSE, <<>>)>>,
    <<Candidate(TRUE, <<>>, FALSE, <<>>)>>,
    <<Candidate(TRUE, <<Part(FALSE, <<>>)>>, TRUE, <<>>)>>,
    <<Candidate(FALSE, <<>>, TRUE,
                <<Chunk(FALSE, "", "-"), Chunk(TRUE, "A", "x")>>)>> }

\* lines 111-114: chunk.candidates?.[0]?.content?.parts?.map((part) =>
\* part.text).join("") || "": join writes a text that is undefined as ""
ExtractText(raw) ==
  IF raw = <<>> THEN <<>>
  ELSE IF ~raw[1].hasParts THEN <<>>
  ELSE Flatten([i \in 1..Len(raw[1].parts) |->
                  IF raw[1].parts[i].hasText THEN raw[1].parts[i].text ELSE <<>>])

\* lines 127-128: chunk.candidates?.[0]?.groundingMetadata?.groundingChunks
ExtractChunks(raw) ==
  IF raw = <<>> THEN <<>>
  ELSE IF ~raw[1].hasChunks THEN <<>>
  ELSE raw[1].chunks

\* what the loop body reads of a unit
Extracted(raw) == [text |-> ExtractText(raw), chunks |-> ExtractChunks(raw)]

\* the units the upstream model may deliver, as the loop body reads them
Units == {Extracted(raw) : raw \in RawUnits}

\* groundingChunks.forEach((grChunk, index) => ...): id is the position of the
\* chunk in its unit
RECURSIVE CitationsFrom(_, _)
CitationsFrom(chunks, index) ==
  IF index > Len(chunks) THEN <<>>
  ELSE (IF chunks[index].hasCtx
          THEN <<[id |-> index,
                  sourceTitle |-> IF chunks[index].title = "" THEN UnknownSource
                                  ELSE chunks[index].title,
                  sourceUri |-> chunks[index].uri]>>
          ELSE <<>>)
       \o CitationsFrom(chunks, index + 1)

\* a relay that sends the citations of each unit with the unit
UnitEventsWithCitations(u) ==
  (IF u.text # <<>> THEN <<TextEvent(u.text)>> ELSE <<>>)
  \o (IF CitationsFrom(u.chunks, 1) # <<>>
        THEN <<CitationsEvent(CitationsFrom(u.chunks, 1))>> ELSE <<>>)

\* a relay that holds the text back
UnitEventsBuffered(u) == <<>>

\* a relay that sends a text event for every unit
UnitEventsAlways(u) == <<TextEvent(u.text)>>

\* the events enqueued while one unit is processed
UnitEvents(u) == IF u.text # <<>> THEN <<TextEvent(u.text)>> ELSE <<>>

\* a relay that sends a citations event whether or not there are citations
ExhaustedEventsAlways(cs) == <<CitationsEvent(cs)>>

\* the events enqueued once the upstream stream is exhausted, before the save
ExhaustedEvents(cs) == IF cs # <<>> THEN <<CitationsEvent(cs)>> ELSE <<>>

\* a catch that closes the stream without telling the client
CatchEventsSilent == <<>>

\* the catch of the stream: the error event, then close
CatchEvents == <<ErrorEvent>>

FramesOf(evs) == Flatten([i \in 1..Len(evs) |-> Frame(evs[i])])

Enqueue(evs) ==
  /\ wire' = wire \o FramesOf(evs)
  /\ events' = events \o evs

\* ------------------------------------------------------------ the store
Owns(userId, conversationId) ==
  conversationId = ConvId /\ dbConv.owner = userId

Row(conversationId, role, content, cits) ==
  [conversationId |-> conversationId, role |-> role, content |-> content,
   citations |-> cits]

\* result.text?.trim() || "New conversation"
TitleOf(raw) == IF Trim(raw) = <<>> THEN DefaultTitle ELSE Trim(raw)

\* ------------------------------------------------------------ Init
\* What the component and the store hold when the turn under study begins:
\* a new conversation, or the state an earlier turn of the owner has left.
\*   answered: that turn streamed "a" and its title was generated;
\*   unanswered: its upstream stream threw before any text, so the component
\*     still shows the empty assistant message and the store the user row.
Priors ==
  { [messages |-> <<>>, dbMessages |-> <<>>,
     dbConv |-> [owner |-> ConvOwner, title |-> NoTitle, updatedAt |-> 0],
     listTitle |-> NoTitle],
    [messages |-> <<UserMsg(Question), Msg("assistant", <<"a">>, <<>>)>>,
     dbMessages |-> <<Row(ConvId, "user", Question, <<>>),
                      Row(ConvId, "assistant", <<"a">>, <<>>)>>,
     dbConv |-> [owner |-> ConvOwner, title |-> <<"T">>, updatedAt |-> 2],
     listTitle |-> <<"T">>],
    [messages |-> <<UserMsg(Question), Placeholder>>,
     dbMessages |-> <<Row(ConvId, "user", Question, <<>>)>>,
     dbConv |-> [owner |-> ConvOwner, title |-> NoTitle, updatedAt |-> 1],
     listTitle |-> NoTitle] }

Init ==
  /\ spc = "idle"
  /\ req = NoRequest
  /\ response = "none"
  /\ fullResponse = <<>>
  /\ citations = <<>>
  /\ wire = <<>>
  /\ closed = FALSE
  /\ abandoned = FALSE
  /\ \E p \in Priors :
       /\ messages = p.messages
       /\ dbMessages = p.dbMessages
       /\ dbConv = p.dbConv
       /\ listTitle = p.listTitle
  /\ isLoading = FALSE
  /\ cpc = "idle"
  /\ sentMessages = <<>>
  /\ userMessage = UserMsg(<<>>)
  /\ accumulatedContent = <<>>
  /\ clientCitations = <<>>
  /\ events = <<>>
  /\ unitsSeen = <<>>
  /\ failed = {}
  /\ ended = "none"
  /\ decoded = <<>>
  /\ turn = 0
  /\ contents = <<>>

\* ------------------------------------------------------------ POST /api/chat
\* a route that goes on to the upstream call when a write has thrown
AfterUserInsertIgnored(outcome) == "call"

\* lines 67-79: both writes are awaited outside the try of line 82, so a write
\* that throws rejects the handler before the upstream call
AfterUserInsert(outcome) == IF outcome = "ok" THEN "call" ELSE "failed"

\* lines 54-80: the ownership check, the insert of the user message and the
\* update of updatedAt.  A write that throws rejects the handler: 500.
PersistUserMessage ==
  /\ spc = "start"
  /\ IF req.userId # NoUser /\ req.conversationId # NoConv
        /\ Owns(req.userId, req.conversationId)
     THEN \E outcome \in {"ok", "insertThrows", "updateThrows"} :
            /\ dbMessages' = IF outcome = "insertThrows" THEN dbMessages
                             ELSE Append(dbMessages,
                                         Row(req.conversationId, "user", req.message, <<>>))
            /\ dbConv' = IF outcome = "ok"
                         THEN [dbConv EXCEPT !.updatedAt = @ + 1] ELSE dbConv
            /\ spc' = AfterUserInsert(outcome)
            /\ response' = IF AfterUserInsert(outcome) = "call" THEN "none" ELSE "failed"
            /\ failed' = IF outcome = "ok" THEN failed
                         ELSE failed \cup {IF outcome = "insertThrows"
                                           THEN "userInsert" ELSE "updatedAt"}
     ELSE /\ spc' = "call"
          /\ UNCHANGED <<dbMessages, dbConv, response, failed>>
  /\ UNCHANGED <<req, fullResponse, citations, wire, closed, abandoned, events,
                 unitsSeen>>
  /\ UNCHANGED clientVars
  /\ UNCHANGED besideChat

\* an entry of the contents of the upstream request
Content(role, text) == [role |-> role, text |-> text]

\* a request that hands the roles of the messages on as they are
RoleKept(role) == role

\* line 44: msg.role === "user" ? "user" : "model"
RoleOf(role) == IF role = "user" THEN "user" ELSE "model"

\* lines 42-52: history.map(...), then the push of the new user message
ContentsOf(history, message) ==
  [i \in 1..Len(history) |-> Content(RoleOf(history[i].role), history[i].content)]
  \o <<Content("user", message)>>

\* lines 82-98 and 199-212: the upstream call; the stream comes back and the
\* response is opened, or the call throws and the response is a 500.
CallUpstream ==
  /\ spc = "call"
  /\ \E ok \in BOOLEAN :
       /\ spc' = IF ok THEN "streaming" ELSE "failed"
       /\ response' = IF ok THEN "stream" ELSE "failed"
       /\ failed' = IF ok THEN failed ELSE failed \cup {"upstreamCall"}
  /\ contents' = ContentsOf(req.history, req.message)
  /\ UNCHANGED <<req, fullResponse, citations, wire, closed, abandoned, dbMessages,
                 dbConv, events, unitsSeen>>
  /\ UNCHANGED clientVars
  /\ UNCHANGED besideTurn

\* controller.enqueue throws once the client has cancelled the stream
CanEnqueue(evs) == ~abandoned \/ evs = <<>>

\* lines 187-195: the catch of the stream, entered after the events pre were
\* enqueued: the error event, then close.  When the enqueue of the error event
\* throws as well, start() rejects and the turn is over without close.
Catch(pre, labels) ==
  IF CanEnqueue(CatchEvents)
    THEN /\ Enqueue(pre \o CatchEvents)
         /\ closed' = TRUE
         /\ spc' = "closed"
         /\ failed' = failed \cup labels
    ELSE /\ Enqueue(pre)
         /\ spc' = "aborted"
         /\ failed' = failed \cup labels \cup {"enqueue"}
         /\ UNCHANGED closed

\* lines 109-141: one unit of the upstream stream
StreamUnit ==
  /\ spc = "streaming"
  /\ Len(unitsSeen) < MaxUnits
  /\ \E u \in Units :
       /\ fullResponse' = fullResponse \o u.text
       /\ unitsSeen' = Append(unitsSeen, u.text)
       /\ IF CanEnqueue(UnitEvents(u))
          THEN /\ Enqueue(UnitEvents(u))
               /\ citations' = citations \o CitationsFrom(u.chunks, 1)
               /\ UNCHANGED <<spc, closed, failed>>
          ELSE /\ Catch(<<>>, {})
               /\ UNCHANGED citations
  /\ UNCHANGED <<req, response, abandoned, dbMessages, dbConv>>
  /\ UNCHANGED clientVars
  /\ UNCHANGED besideChat

\* a catch that saves the text streamed so far as the assistant message
CatchRowsPartial ==
  IF req.userId # NoUser /\ req.conversationId # NoConv /\ fullResponse # <<>>
    THEN Append(dbMessages, Row(req.conversationId, "assistant", fullResponse, citations))
    ELSE dbMessages

\* lines 187-195: the rows of the store after the catch, which writes nothing
CatchRows == dbMessages

\* lines 109 and 187-195: the upstream iterator throws
StreamThrows ==
  /\ spc = "streaming"
  /\ Catch(<<>>, {"upstreamStream"})
  /\ dbMessages' = CatchRows
  /\ UNCHANGED <<req, response, fullResponse, citations, abandoned, dbConv, unitsSeen>>
  /\ UNCHANGED clientVars
  /\ UNCHANGED besideChat

\* a route that generates a title in every turn
AfterInsertAlwaysTitle == "title"

\* the stage after the assistant insert
AfterInsert == IF req.history = <<>> THEN "title" ELSE "done"

\* a route that saves the assistant message without asking for a user
ShouldPersistWithoutUser == req.conversationId # NoConv /\ fullResponse # <<>>

\* a route that saves the assistant message whether or not text was produced
ShouldPersistAnyResponse == req.userId # NoUser /\ req.conversationId # NoConv

\* line 153: the condition of the insert of the assistant message
ShouldPersist ==
  req.userId # NoUser /\ req.conversationId # NoConv /\ fullResponse # <<>>

\* lines 143-159 (and 187-195 when a step throws): the upstream stream is
\* exhausted; the citations event, then the insert of the assistant message
StreamExhausted ==
  /\ spc = "streaming"
  /\ IF ~CanEnqueue(ExhaustedEvents(citations))
     THEN /\ Catch(<<>>, {})
          /\ UNCHANGED dbMessages
     ELSE IF ShouldPersist
     THEN \E ok \in BOOLEAN :
            IF ok
            THEN /\ dbMessages' = Append(dbMessages,
                                         Row(req.conversationId, "assistant",
                                             fullResponse, citations))
                 /\ Enqueue(ExhaustedEvents(citations))
                 /\ spc' = AfterInsert
                 /\ UNCHANGED <<closed, failed>>
            ELSE /\ Catch(ExhaustedEvents(citations), {"assistantInsert"})
                 /\ UNCHANGED dbMessages
     ELSE /\ Enqueue(ExhaustedEvents(citations))
          /\ spc' = "done"
          /\ UNCHANGED <<dbMessages, closed, failed>>
  /\ UNCHANGED <<req, response, fullResponse, citations, abandoned, dbConv, unitsSeen>>
  /\ UNCHANGED clientVars
  /\ UNCHANGED besideChat

\* a title block whose failure is reported on the stream
TitleCatchEventsReported == <<ErrorEvent>>

\* what the catch of the title block enqueues (lines 176-178): nothing
TitleCatchEvents == <<>>

\* lines 161-180: generateTitle, the update of the title, the title event; an
\* enqueue that throws is caught by the catch of the block like the rest
GenerateTitle ==
  /\ spc = "title"
  /\ \E outcome \in {"ok", "generateThrows", "updateThrows"}, raw \in {<<"T">>, <<SP>>} :
       IF outcome = "ok"
       THEN /\ dbConv' = [dbConv EXCEPT !.title = TitleOf(raw), !.updatedAt = @ + 1]
            /\ IF CanEnqueue(<<TitleEvent(TitleOf(raw))>>)
               THEN /\ Enqueue(<<TitleEvent(TitleOf(raw))>>)
                    /\ UNCHANGED failed
               ELSE /\ Enqueue(<<>>)
                    /\ failed' = failed \cup {"enqueue"}
       ELSE /\ Enqueue(TitleCatchEvents)
            /\ failed' = failed \cup {IF outcome = "generateThrows"
                                      THEN "titleGenerate" ELSE "titleUpdate"}
            /\ UNCHANGED dbConv
  /\ spc' = "done"
  /\ UNCHANGED <<req, response, fullResponse, citations, closed, abandoned, dbMessages,
                 unitsSeen>>
  /\ UNCHANGED clientVars
  /\ UNCHANGED besideChat

\* lines 182-186: the done event, then close
SendDone ==
  /\ spc = "done"
  /\ IF CanEnqueue(<<DoneEvent>>)
     THEN /\ Enqueue(<<DoneEvent>>)
          /\ closed' = TRUE
          /\ spc' = "closed"
          /\ UNCHANGED failed
     ELSE Catch(<<>>, {})
  /\ UNCHANGED <<req, response, fullResponse, citations, abandoned, dbMessages, dbConv,
                 unitsSeen>>
  /\ UNCHANGED clientVars
  /\ UNCHANGED besideChat

\* the client goes away while the response is open: the runtime cancels the
\* ReadableStream of lines 106-197
Abandon ==
  /\ spc \in {"streaming", "title", "done"}
  /\ ~abandoned
  /\ abandoned' = TRUE
  /\ UNCHANGED <<spc, req, response, fullResponse, citations, wire, closed, dbMessages,
                 dbConv, events, unitsSeen, failed>>
  /\ UNCHANGED clientVars
  /\ UNCHANGED besideChat

\* ------------------------------------------------------------ Chat.sendMessage
\* an input that is never disabled
InputDisabledNever == FALSE

\* Chat.tsx 821 and MessageInput.tsx 23: disabled = isLoading ||
\* isLoadingMessages || !conversationId; a conversation is open and loaded
InputDisabled == isLoading

\* the message list of the turn with the assistant message as streamed so far
Streaming(content, cits) ==
  sentMessages \o <<userMessage, Msg("assistant", content, cits)>>

\* lines 582-588: the list the outer catch passes to onMessagesUpdate
CatchMessages ==
  SelectSeq(sentMessages, LAMBDA m : ~(m.role = "assistant" /\ m.content = <<>>))
  \o <<userMessage, ErrorMessage>>

\* lines 564-570: the error event throws inside the try of the segment, whose
\* own catch logs the error and the loop goes on
ErrorEventThrowsOut == FALSE

\* a read loop that a payload that does not parse ends
ParseErrorEndsLoop == TRUE

\* lines 537 and 567-571: JSON.parse throws inside the try of the segment,
\* whose catch logs a warning and the loop goes on
ParseErrorThrowsOut == FALSE

\* a reduction that adds the list of the event to the list it holds
CitationsMerged(held, sent) == held \o sent

\* line 550: citations = data.citations
CitationsAfter(held, sent) == sent

\* lines 534-572: one segment of a read.  st is the state of the read loop.
ApplySegment(st, seg) ==
  IF st.threw \/ ~StartsWith(seg, Prefix) THEN st
  ELSE LET data == JsonParse(Drop(seg, Len(Prefix)))
           seen == [st EXCEPT !.decoded = Append(@, data.event)]
       IN
       IF ~data.ok THEN [st EXCEPT !.threw = ParseErrorThrowsOut]
       ELSE IF data.event.type = "text"
         THEN [seen EXCEPT !.acc = @ \o data.event.content,
                           !.msgs = Streaming(st.acc \o data.event.content, st.cits)]
       ELSE IF data.event.type = "citations"
         THEN [seen EXCEPT !.cits = CitationsAfter(st.cits, data.event.citations),
                           !.msgs = Streaming(st.acc,
                                      CitationsAfter(st.cits, data.event.citations))]
       ELSE IF data.event.type = "title"
         THEN (IF req.conversationId # NoConv
                 THEN [seen EXCEPT !.title = data.event.content] ELSE seen)
       ELSE IF data.event.type = "error"
         THEN [seen EXCEPT !.threw = ErrorEventThrowsOut]
       ELSE seen

RECURSIVE ApplySegments(_, _)
ApplySegments(st, segs) ==
  IF segs = <<>> THEN st ELSE ApplySegments(ApplySegment(st, Head(segs)), Tail(segs))

\* lines 530-531: the segments of one read
Segments(chunk) == Split(chunk)

\* the request reaches POST /api/chat (lines 38-40); the handler starts afresh
Arrive(userId, conversationId, message, history) ==
  /\ req' = [userId |-> userId, conversationId |-> conversationId,
             message |-> message, history |-> history]
  /\ spc' = "start"
  /\ response' = "none"
  /\ fullResponse' = <<>>
  /\ citations' = <<>>
  /\ wire' = <<>>
  /\ closed' = FALSE
  /\ abandoned' = FALSE
  /\ events' = <<>>
  /\ unitsSeen' = <<>>
  /\ failed' = {}
  /\ turn' = turn + 1

\* lines 473-500: the user message is shown, isLoading is set, the request
\* leaves with the conversationId of the component.  One turn of the component
\* is followed; the session is the owner's, or has expired.
SendMessage ==
  /\ cpc = "idle"
  /\ ~InputDisabled
  /\ turn = 0
  /\ \E userId \in {ConvOwner, NoUser} : Arrive(userId, ConvId, Question, messages)
  /\ sentMessages' = messages
  /\ userMessage' = UserMsg(Question)
  /\ messages' = messages \o <<UserMsg(Question)>>
  /\ isLoading' = TRUE
  /\ cpc' = "fetching"
  /\ ended' = "none"
  /\ decoded' = <<>>
  /\ accumulatedContent' = <<>>
  /\ clientCitations' = <<>>
  /\ UNCHANGED <<dbMessages, dbConv, listTitle>>
  /\ UNCHANGED besideChat

\* the histories a request body may carry
Histories == {<<>>, <<UserMsg(Question), Msg("assistant", <<"a">>, <<>>)>>}

\* lines 38-40: a request of any caller, with any history in its body
Post ==
  /\ spc = "idle"
  /\ turn = 0
  /\ \E userId \in Users \cup {NoUser}, conversationId \in {ConvId, NoConv},
        history \in Histories :
       Arrive(userId, conversationId, Question, history)
  /\ UNCHANGED <<dbMessages, dbConv>>
  /\ UNCHANGED <<messages, isLoading, cpc, sentMessages, userMessage,
                 accumulatedContent, clientCitations, listTitle, ended, decoded>>
  /\ UNCHANGED besideChat

\* lines 492-500 and 575-591: fetch rejects, the request never arrives
FetchThrows ==
  /\ cpc = "fetching"
  /\ spc = "start"
  /\ spc' = "idle"
  /\ messages' = CatchMessages
  /\ isLoading' = FALSE
  /\ cpc' = "idle"
  /\ ended' = "fetchThrew"
  /\ UNCHANGED <<req, response, fullResponse, citations, wire, closed, abandoned,
                 dbMessages, dbConv, events, unitsSeen, failed>>
  /\ UNCHANGED <<sentMessages, userMessage, accumulatedContent, clientCitations,
                 listTitle, decoded, turn>>
  /\ UNCHANGED besideChat

\* lines 502-524 and 575-591: the response arrives
ReceiveResponse ==
  /\ cpc = "fetching"
  /\ response # "none"
  /\ IF response = "failed"
     THEN /\ messages' = CatchMessages
          /\ isLoading' = FALSE
          /\ cpc' = "idle"
          /\ ended' = "notOk"
     ELSE /\ messages' = sentMessages \o <<userMessage, Placeholder>>
          /\ cpc' = "reading"
          /\ UNCHANGED <<isLoading, ended>>
  /\ UNCHANGED serverVars
  /\ UNCHANGED <<sentMessages, userMessage, accumulatedContent, clientCitations,
                 listTitle, decoded, turn>>
  /\ UNCHANGED besideChat

\* lines 526-574: one read that returns a chunk.  The transport hands over any
\* non-empty prefix of what is in flight.
ReadChunk ==
  /\ cpc = "reading"
  /\ wire # <<>>
  /\ \E k \in 1..Len(wire) :
       \E st \in {ApplySegments([acc |-> accumulatedContent, cits |-> clientCitations,
                                 msgs |-> messages, title |-> listTitle,
                                 decoded |-> decoded, threw |-> FALSE],
                                Segments(Take(wire, k)))} :
          /\ wire' = Drop(wire, k)
          /\ accumulatedContent' = st.acc
          /\ clientCitations' = st.cits
          /\ listTitle' = st.title
          /\ decoded' = st.decoded
          /\ IF st.threw
             THEN /\ messages' = CatchMessages
                  /\ isLoading' = FALSE
                  /\ cpc' = "idle"
                  /\ ended' = "errorEvent"
             ELSE /\ messages' = st.msgs
                  /\ UNCHANGED <<isLoading, cpc, ended>>
  /\ UNCHANGED <<spc, req, response, fullResponse, citations, closed, abandoned,
                 dbMessages, dbConv, events, unitsSeen, failed>>
  /\ UNCHANGED <<sentMessages, userMessage, turn>>
  /\ UNCHANGED besideChat

\* lines 527-528 and 589-591: the read reports the end of the stream
ReadDone ==
  /\ cpc = "reading"
  /\ wire = <<>>
  /\ closed
  /\ isLoading' = FALSE
  /\ cpc' = "idle"
  /\ ended' = "closed"
  /\ UNCHANGED serverVars
  /\ UNCHANGED <<messages, sentMessages, userMessage, accumulatedContent,
                 clientCitations, listTitle, decoded, turn>>
  /\ UNCHANGED besideChat

\* lines 527 and 575-591: reader.read() rejects
ReadThrows ==
  /\ cpc = "reading"
  /\ messages' = CatchMessages
  /\ isLoading' = FALSE
  /\ cpc' = "idle"
  /\ ended' = "readThrew"
  /\ UNCHANGED serverVars
  /\ UNCHANGED <<sentMessages, userMessage, accumulatedContent, clientCitations,
                 listTitle, decoded, turn>>
  /\ UNCHANGED besideChat

\* ------------------------------------------------------------ fileMapping.ts
\* the value a lookup returns when nothing matches
Undefined == "undefined"

\* the entries a mapping may hold: [key, fileName, sharePointUrl]
Entry(key, fileName, url) == [key |-> key, fileName |-> fileName, sharePointUrl |-> url]

\* "constructor": a property every object inherits from Object.prototype
Constructor == <<"c", "t", "o", "r">>
ObjectPrototypeNames == {Constructor}

\* "A.p" stands for a file name with an extension, "d/A.p" for its key
EntryPool ==
  { Entry(<<"d", "/", "A", ".", "p">>, <<"A", ".", "p">>, "S1"),
    Entry(<<"A", ".", "p">>, <<"B">>, "S2"),
    Entry(<<"d", "/", "A">>, <<"A">>, "S3"),
    Entry(<<"d", "/", "c">>, Constructor, "S4") }

\* the titles a lookup may be called with
Titles ==
  { <<>>, <<"A", ".", "p">>, <<"d", "/", "A", ".", "p">>, <<"A">>,
    <<"R", ":", "A">>, <<"p">>, <<"C">>, Constructor }

\* a mapping is the list of its entries in the order of Object.values
Keys(m) == {m[i].key : i \in 1..Len(m)}
MappingsUpTo(n) ==
  UNION { {m \in [1..k -> EntryPool] : Cardinality(Keys(m)) = k} : k \in 0..n }

\* String.prototype.includes
Includes(s, t) ==
  \E i \in 0..(Len(s) - Len(t)) : SubSeq(s, i + 1, i + Len(t)) = t

\* fileName.replace(/\.[^/.]+$/, ""): the last dot and what follows it are
\* removed when at least one character follows and none of them is a slash
ExtensionAt(fileName) ==
  {i \in 1..(Len(fileName) - 1) :
     /\ fileName[i] = "."
     /\ \A j \in (i + 1)..Len(fileName) : fileName[j] \notin {".", "/"}}
FileNameWithoutExt(fileName) ==
  IF ExtensionAt(fileName) = {} THEN fileName
  ELSE Take(fileName, (CHOOSE i \in ExtensionAt(fileName) : TRUE) - 1)

\* the first of the indices hits, 0 when there is none
FirstIndex(hits) ==
  IF hits = {} THEN 0 ELSE CHOOSE i \in hits : \A j \in hits : i <= j

\* mappings[title]: an own key, or a property inherited from Object.prototype
OwnIndex(m, t) == FirstIndex({i \in 1..Len(m) : m[i].key = t})

\* lines 84-88: the first entry whose fileName is the title
FileNameIndex(m, t) == FirstIndex({i \in 1..Len(m) : m[i].fileName = t})

PartialMatch(t, e) ==
  \/ Includes(t, e.fileName)
  \/ Includes(t, FileNameWithoutExt(e.fileName))
  \/ Includes(e.fileName, t)

\* lines 91-100: the first entry that matches the title in part
PartialIndex(m, t) == FirstIndex({i \in 1..Len(m) : PartialMatch(t, m[i])})

\* resolveSharePointUrl(title), over the snapshot loadMappings has returned
resolveSharePointUrl(m, t) ==
  IF t = <<>> THEN Undefined
  ELSE IF OwnIndex(m, t) # 0 THEN m[OwnIndex(m, t)].sharePointUrl
  ELSE IF t \in ObjectPrototypeNames THEN Undefined
  ELSE IF FileNameIndex(m, t) # 0 THEN m[FileNameIndex(m, t)].sharePointUrl
  ELSE IF PartialIndex(m, t) # 0 THEN m[PartialIndex(m, t)].sharePointUrl
  ELSE Undefined

\* no call of the resolver under study
ResolverIdle ==
  /\ lookupTitle = <<>>
  /\ lookupMappings = <<>>
  /\ resolved = "none"

\* cachedMappings = null; a snapshot is a record of the same shape
Null == [null |-> TRUE, doc |-> <<>>, served |-> 0]

\* const CACHE_TTL_MS = 5 * 60 * 1000
CACHE_TTL_MS == 5 * 60 * 1000

\* the clock moves in steps of half the TTL
ClockStep == CACHE_TTL_MS \div 2

\* Date.now() when the process starts
StartTime == CACHE_TTL_MS + CACHE_TTL_MS

\* the callers of resolveSharePointUrl
Callers == 1..MaxCallers

\* a call that has not begun.  Beside the locals of the call (title, now,
\* the response of the fetch, the value returned) the record keeps what the
\* call has seen and done.
IdleLookup ==
  [pc |-> "idle", title |-> <<>>, now |-> 0, outcome |-> "none", body |-> Null,
   result |-> "none",
   attempts |-> 0,        \* fetches sent
   seen |-> Null,         \* cachedMappings when loadMappings began
   seenFresh |-> FALSE,   \* it was younger than the TTL (by cacheTimestamp)
   loadedLately |-> FALSE, \* a load had written the cache less than the TTL
                           \* before loadMappings began
   first |-> FALSE,       \* the first lookup after an invalidation
   epoch |-> 0,           \* invalidations when loadMappings began
   prev |-> Null,         \* cachedMappings when the fetch came back
   from |-> Null,         \* the snapshot the call was answered from
   fromStale |-> FALSE]   \* that snapshot was as old as the TTL on return

\* the module as loaded: nothing cached, no call under way
CacheStart ==
  /\ cachedMappings = Null
  /\ cacheTimestamp = 0
  /\ clock = StartTime
  /\ lookups = [p \in Callers |-> IdleLookup]
  /\ invalidations = 0
  /\ pendingInvalidation = FALSE
  /\ loadedAt = 0

\* fileMapping.ts is not in use
MappingIdle ==
  /\ ResolverIdle
  /\ CacheStart
  /\ bucketSet = TRUE

\* no event under study
CodecIdle ==
  /\ codecEvent = DoneEvent
  /\ codecFrame = <<>>
  /\ codecDecoded = <<>>

\* an invocation of sendMessage that has not begun: where it stands, the
\* messages prop of the render it was created in, its accumulatedContent,
\* and how it ended
IdleCall ==
  [pc |-> "idle", messages |-> <<>>, accumulatedContent |-> <<>>, ended |-> "none"]

\* no submit is followed
InputIdle == calls = [i \in 1..MaxSubmits |-> IdleCall]

\* the ids a request may name: two conversations exist, the third id is of
\* no conversation
ConvIds == {1, 2, 3}

\* a row of conversations; a row that does not exist keeps the owner it had
ConvRow(exists, owner, title, updatedAt) ==
  [exists |-> exists, owner |-> owner, title |-> title, updatedAt |-> updatedAt]

\* a row of messages
MsgRow(conversationId, content) ==
  [conversationId |-> conversationId, content |-> content]

\* a response body: the rows of conversations and of messages it carries
Body(rows, msgs) == [rows |-> rows, messages |-> msgs]

NoCall ==
  [op |-> "none", caller |-> NoUser, id |-> 0, status |-> 0,
   body |-> Body({}, <<>>), statements |-> 0]

NoPending == [caller |-> NoUser, id |-> 0]

\* the tables as the conversations endpoints find them: a conversation of
\* each user with one message each; no request
ConvApiStart ==
  /\ convRows = [id \in ConvIds |->
                   IF id = 1 THEN ConvRow(TRUE, "u1", <<"T">>, 0)
                   ELSE IF id = 2 THEN ConvRow(TRUE, "u2", <<"T">>, 0)
                   ELSE ConvRow(FALSE, NoUser, NoTitle, 0)]
  /\ msgRows = <<MsgRow(1, "m1"), MsgRow(2, "m2")>>
  /\ apiCall = NoCall
  /\ pendingMessages = NoPending

\* no byte stream under study
ReaderIdle == stream = <<>>

\* ------------------------------------------------------------ specification
\* a chat turn begins; fileMapping.ts is not in use
TurnInit ==
  /\ Init
  /\ MappingIdle
  /\ CodecIdle
  /\ InputIdle
  /\ ConvApiStart
  /\ ReaderIdle

Next ==
  \/ SendMessage
  \/ FetchThrows
  \/ PersistUserMessage
  \/ CallUpstream
  \/ StreamUnit
  \/ StreamThrows
  \/ StreamExhausted
  \/ GenerateTitle
  \/ SendDone
  \/ ReceiveResponse
  \/ ReadChunk
  \/ ReadDone
  \/ ReadThrows

Spec == TurnInit /\ [][Next]_vars

\* the route alone, called by any client
RouteNext ==
  \/ Post
  \/ PersistUserMessage
  \/ CallUpstream
  \/ StreamUnit
  \/ StreamThrows
  \/ StreamExhausted
  \/ GenerateTitle
  \/ SendDone

RouteSpec == TurnInit /\ [][RouteNext]_vars

\* the route, with a client that may go away while the response is open
AbandonNext ==
  \/ RouteNext
  \/ Abandon

AbandonSpec == TurnInit /\ [][AbandonNext]_vars

\* ------------------------------------------------------------ properties
IsTerminal(e) == e.type \in {"done", "error"}
TerminalCount == Cardinality({i \in 1..Len(events) : IsTerminal(events[i])})
HasEvent(type) == \E i \in 1..Len(events) : events[i].type = type
TypesOf(evs) == [i \in 1..Len(evs) |-> evs[i].type]
Rank(e) ==
  IF e.type = "text" THEN 1
  ELSE IF e.type = "citations" THEN 2
  ELSE IF e.type = "title" THEN 3
  ELSE 4

ErrorDecoded == \E i \in 1..Len(decoded) : decoded[i].type = "error"
TurnEnded == ended # "none"
LastMessage == messages[Len(messages)]

\* C1: the events of a turn are text events, then at most one citations event,
\* then at most one title event, then the terminal event: no text event follows
\* a citations event, no citations event follows a title event.
C1_EventOrder ==
  \A i, j \in 1..Len(events) :
    i < j => /\ Rank(events[i]) <= Rank(events[j])
             /\ (Rank(events[i]) > 1 => Rank(events[i]) < Rank(events[j]))

C1_Witness ==
  /\ spc = "closed"
  /\ TypesOf(events) = <<"text", "citations", "title", "done">>

C3_ContentIsConcatenation ==
  ended = "closed" =>
    /\ Len(messages) = Len(sentMessages) + 2
    /\ LastMessage.role = "assistant"
    /\ LastMessage.content = Flatten(unitsSeen)

\* the events of a byte stream decoded as one read
DecodeWhole(bytes) ==
  ApplySegments([acc |-> <<>>, cits |-> <<>>, msgs |-> <<>>, title |-> NoTitle,
                 decoded |-> <<>>, threw |-> FALSE], Segments(bytes)).decoded

\* C4: the events decoded over the reads of a turn are the events the same
\* bytes decode to in one read, however the bytes were split.
C4_SplitIndependent ==
  ended = "closed" => decoded = DecodeWhole(FramesOf(events))

\* C5: a turn in which the client decoded an error event, once its read loop
\* is over, ends with the synthetic error message last, no empty assistant
\* message of the turn, and the messages of before the turn unchanged.
C5_ErrorEventEndsInErrorMessage ==
  (ended \in {"closed", "errorEvent"} /\ ErrorDecoded) =>
    /\ LastMessage = ErrorMessage
    /\ Take(messages, Len(sentMessages)) = sentMessages
    /\ \A i \in (Len(sentMessages) + 1)..Len(messages) :
         ~(messages[i].role = "assistant" /\ messages[i].content = <<>>)

\* C6: a turn that fails (error event, or the read throws) after text was
\* applied ends with the assistant message carrying that text, followed by
\* the synthetic error message.
C6_StreamedTextKept ==
  (TurnEnded /\ accumulatedContent # <<>> /\ (ErrorDecoded \/ ended = "readThrew")) =>
    \E i \in 1..(Len(messages) - 1) :
      /\ messages[i].role = "assistant"
      /\ messages[i].content = accumulatedContent
      /\ messages[i + 1] = ErrorMessage

\* C7: a turn that has ended shows an assistant message with content or the
\* synthetic error message, never only an empty assistant message.
C7_AnswerOrError ==
  TurnEnded =>
    /\ LastMessage.role = "assistant"
    /\ LastMessage.content # <<>>

\* C8: a persistence write that fails while the upstream model does not fail
\* never produces an error event or a failed request, and the turn ends with
\* done.
C8_PersistenceFailureSilent ==
  (/\ failed \cap {"userInsert", "updatedAt", "assistantInsert"} # {}
   /\ failed \cap {"upstreamCall", "upstreamStream"} = {}) =>
    /\ response # "failed"
    /\ ~HasEvent("error")
    /\ spc = "closed" => events[Len(events)] = DoneEvent

TitleFailed == failed \cap {"titleGenerate", "titleUpdate"} # {}

\* C9: when title generation or the write of the title has failed in a turn,
\* no title event is emitted, no step changes the conversation title, no error
\* event is emitted and the stream closes after done.
C9_TitleFailureSilent ==
  [][TitleFailed' =>
       /\ dbConv'.title = dbConv.title
       /\ ~HasEvent("title")'
       /\ ~HasEvent("error")'
       /\ (spc' = "closed" => events'[Len(events')] = DoneEvent)]_vars

C9_Witness ==
  /\ TitleFailed
  /\ spc = "closed"
  /\ events[Len(events)] = DoneEvent
  /\ dbConv.title = NoTitle

\* C10: a request whose user does not own the conversation writes nothing to
\* the store.
C10_OnlyOwnerWrites ==
  [][~Owns(req.userId, req.conversationId) => UNCHANGED <<dbMessages, dbConv>>]_vars

\* ------------------------------------------------------------ citations
\* C11: the ids of the citations emitted for one message are pairwise distinct
\* and are exactly 1..n in the order the references were seen.
C11_CitationIdsDense ==
  \A k \in 1..Len(events) :
    events[k].type = "citations" =>
      \A i \in 1..Len(events[k].citations) : events[k].citations[i].id = i

\* the mapping document the sync job has left in the bucket
StoredMappings == <<Entry(<<"d", "/", "A">>, <<"A">>, "S3")>>

\* C12: the sourceUri of every emitted citation is the URL the resolver
\* returns for the title of the citation whenever the file mapping matches
\* it; the upstream URI is used only when the resolver returns nothing.
C12_SourceUriResolved ==
  \A k \in 1..Len(events) :
    events[k].type = "citations" =>
      \A i \in 1..Len(events[k].citations) :
        LET c == events[k].citations[i]
            url == resolveSharePointUrl(StoredMappings, <<c.sourceTitle>>)
        IN  url # Undefined => c.sourceUri = url

\* ------------------------------------------------------------ persistence
AssistantRows == SelectSeq(dbMessages, LAMBDA r : r.role = "assistant")
TextOf(evs) ==
  Flatten([i \in 1..Len(evs) |->
             IF evs[i].type = "text" THEN evs[i].content ELSE <<>>])
CitationsOf(evs) ==
  Flatten([i \in 1..Len(evs) |->
             IF evs[i].type = "citations" THEN evs[i].citations ELSE <<>>])

\* the step in which the upstream stream of an authenticated turn with a
\* conversation id is exhausted without an upstream error
ExhaustedStep ==
  /\ spc = "streaming"
  /\ spc' # "streaming"
  /\ "upstreamStream" \notin failed'
  /\ req.userId # NoUser
  /\ req.conversationId # NoConv

\* the assistant message of the turn as the claim describes it
AssistantRowOf(evs) ==
  Row(req.conversationId, "assistant", TextOf(evs), CitationsOf(evs))

C14_UpstreamFailurePersistsNothing ==
  [][/\ "upstreamStream" \in failed' =>
          /\ AssistantRows' = AssistantRows
          /\ events'[Len(events')] = ErrorEvent
          /\ \A i \in 1..(Len(events') - 1) : events'[i].type = "text"
     /\ AssistantRows' # AssistantRows => ExhaustedStep]_vars

C14_Witness ==
  /\ "upstreamStream" \in failed
  /\ ShouldPersist
  /\ spc = "closed"
  /\ TypesOf(events) = <<"text", "error">>
  /\ AssistantRows = <<>>

\* ------------------------------------------------------------ abandonment
\* C15: once the client has abandoned the connection, the emits that follow
\* do not abort the turn, and the assistant message is persisted once the
\* upstream stream is exhausted.
C15_AbandonedTurnPersists ==
  abandoned =>
    /\ spc # "aborted"
    /\ (/\ spc \in {"title", "done", "closed"}
        /\ failed \cap {"upstreamStream", "assistantInsert"} = {}
        /\ ShouldPersist)
       => dbMessages[Len(dbMessages)] =
            Row(req.conversationId, "assistant", fullResponse, citations)

\* ------------------------------------------------------------ the mapping cache
\* the titles the callers look up
LookupTitles == {<<>>, <<"A">>}

\* what the fetch of the mapping document may come to
FetchOutcomes == {"ok", "throws", "empty", "unparsable"}

\* the parsed document, with the number of invalidations that had run when
\* the store served it
Snapshot(doc, served) == [null |-> FALSE, doc |-> doc, served |-> served]

\* a cache that never expires
CacheValidForever(now) == cachedMappings # Null

\* a cache that is never used
CacheValidNever(now) == FALSE

\* line 23: cachedMappings && now - cacheTimestamp < CACHE_TTL_MS
CacheValid(now) == cachedMappings # Null /\ now - cacheTimestamp < CACHE_TTL_MS

\* lines 76-102: the call resolves its title against the mappings it was
\* handed (snap, or {} when Null) and returns
Answer(l, snap, age) ==
  [l EXCEPT !.pc = "done", !.from = snap, !.now = 0, !.body = Null,
            !.fromStale = (snap # Null /\ age >= CACHE_TTL_MS),
            !.result = IF snap = Null THEN resolveSharePointUrl(<<>>, l.title)
                       ELSE resolveSharePointUrl(snap.doc, l.title)]

\* lines 71-76 and 19-45: resolveSharePointUrl(title) up to the first await
\* that yields: the early return, the cache hit, the bucket that is not
\* configured, or the fetch sent.  The callers are alike: they begin in the
\* order of their numbers.
BeginLookup(p) ==
  /\ lookups[p].pc = "idle"
  /\ \A q \in Callers : q < p => lookups[q].pc # "idle"
  /\ \E t \in LookupTitles :
       IF t = <<>>
       THEN /\ lookups' = [lookups EXCEPT ![p] =
                             [@ EXCEPT !.pc = "done", !.title = t, !.result = Undefined]]
            /\ UNCHANGED pendingInvalidation
       ELSE LET l == [lookups[p] EXCEPT !.title = t, !.now = clock,
                                        !.seen = cachedMappings,
                                        !.seenFresh =
                                           (/\ cachedMappings # Null
                                            /\ clock - cacheTimestamp < CACHE_TTL_MS),
                                        !.loadedLately =
                                           (/\ loadedAt # 0
                                            /\ clock - loadedAt < CACHE_TTL_MS),
                                        !.first = pendingInvalidation,
                                        !.epoch = invalidations]
            IN  /\ lookups' = [lookups EXCEPT ![p] =
                                 IF CacheValid(clock)
                                   THEN Answer(l, cachedMappings, clock - cacheTimestamp)
                                 ELSE IF ~bucketSet THEN Answer(l, Null, 0)
                                 ELSE [l EXCEPT !.pc = "fetching", !.attempts = @ + 1]]
                /\ pendingInvalidation' = FALSE
  /\ UNCHANGED <<cachedMappings, cacheTimestamp, clock, bucketSet, invalidations, loadedAt>>
  /\ UNCHANGED resolverVars
  /\ UNCHANGED besideMapping

\* line 45: the store answers the GetObject of the call
S3Responds(p) ==
  /\ lookups[p].pc = "fetching"
  /\ \E outcome \in FetchOutcomes :
       lookups' = [lookups EXCEPT ![p] =
                     [@ EXCEPT !.pc = "responded", !.outcome = outcome,
                               !.body = IF outcome = "ok"
                                          THEN Snapshot(StoredMappings, invalidations)
                                          ELSE Null]]
  /\ UNCHANGED <<cachedMappings, cacheTimestamp, clock, bucketSet, invalidations,
                 pendingInvalidation, loadedAt>>
  /\ UNCHANGED resolverVars
  /\ UNCHANGED besideMapping

\* a load that stamps the cache with the time of its end
LoadTimestampAtEnd(l) == clock

\* lines 20 and 53: cacheTimestamp = now, the Date.now() of the first line
\* of the load
LoadTimestamp(l) == l.now

\* lines 45-61 and 76-102: the call goes on after the await
Continue(p) ==
  /\ lookups[p].pc = "responded"
  /\ LET l == [lookups[p] EXCEPT !.prev = cachedMappings]
     IN  IF l.outcome = "ok"
         THEN /\ cachedMappings' = l.body
              /\ cacheTimestamp' = LoadTimestamp(l)
              /\ loadedAt' = clock
              /\ lookups' = [lookups EXCEPT ![p] = Answer(l, l.body, clock - l.now)]
         ELSE IF l.outcome = "empty"
         THEN /\ lookups' = [lookups EXCEPT ![p] = Answer(l, Null, 0)]
              /\ UNCHANGED <<cachedMappings, cacheTimestamp, loadedAt>>
         ELSE /\ lookups' = [lookups EXCEPT ![p] =
                               Answer(l, cachedMappings, clock - cacheTimestamp)]
              /\ UNCHANGED <<cachedMappings, cacheTimestamp, loadedAt>>
  /\ UNCHANGED <<clock, bucketSet, invalidations, pendingInvalidation>>
  /\ UNCHANGED resolverVars
  /\ UNCHANGED besideMapping

\* lines 131-134: invalidateMappingsCache
invalidateMappingsCache ==
  /\ invalidations < MaxInvalidations
  /\ cachedMappings' = Null
  /\ cacheTimestamp' = 0
  /\ invalidations' = invalidations + 1
  /\ pendingInvalidation' = TRUE
  /\ loadedAt' = 0
  /\ UNCHANGED <<clock, bucketSet, lookups>>
  /\ UNCHANGED resolverVars
  /\ UNCHANGED besideMapping

\* time passes
Tick ==
  /\ clock < StartTime + MaxTicks * ClockStep
  /\ clock' = clock + ClockStep
  /\ UNCHANGED <<cachedMappings, cacheTimestamp, bucketSet, lookups, invalidations,
                 pendingInvalidation, loadedAt>>
  /\ UNCHANGED resolverVars
  /\ UNCHANGED besideMapping

\* the chat is at rest: a new conversation, no turn under way
ChatIdle ==
  /\ Init
  /\ messages = <<>>
  /\ dbMessages = <<>>

CacheInit ==
  /\ ChatIdle
  /\ CodecIdle
  /\ InputIdle
  /\ ConvApiStart
  /\ ReaderIdle
  /\ ResolverIdle
  /\ CacheStart
  /\ bucketSet \in BOOLEAN

CacheNext ==
  \/ \E p \in Callers : BeginLookup(p)
  \/ \E p \in Callers : S3Responds(p)
  \/ \E p \in Callers : Continue(p)
  \/ invalidateMappingsCache
  \/ Tick

CacheSpec == CacheInit /\ [][CacheNext]_vars

Done(p) == lookups[p].pc = "done" /\ lookups[p].title # <<>>

\* C16 as stated: a lookup made less than the TTL after a successful load has
\* written the cache, with no invalidation in between, is answered from the
\* cached snapshot without fetching.
C16_CachedWithinTTLOfLoad ==
  \A p \in Callers :
    (Done(p) /\ lookups[p].loadedLately) =>
      /\ lookups[p].attempts = 0
      /\ lookups[p].from = lookups[p].seen

\* C16 amended: a lookup made less than the TTL after the start time of the
\* load that last wrote the cache (the time kept as cacheTimestamp), with no
\* invalidation in between, is answered from the cached snapshot without
\* fetching.
C16_CachedWithinTTLOfLoadStart ==
  \A p \in Callers :
    (Done(p) /\ lookups[p].seen # Null /\ lookups[p].seenFresh) =>
      /\ lookups[p].attempts = 0
      /\ lookups[p].from = lookups[p].seen

C16_Witness ==
  \E p \in Callers :
    /\ Done(p)
    /\ lookups[p].seen # Null
    /\ lookups[p].seenFresh
    /\ clock > StartTime
    /\ lookups[p].attempts = 0
    /\ lookups[p].result = "S3"

\* C17: a lookup that finds a cached snapshot whose age is at least the TTL
\* sends exactly one fetch before it returns, no lookup sends more than one,
\* and no lookup is answered from a snapshot as old as the TTL without having
\* sent a fetch.
C17_ExpiredSnapshotRefetched ==
  \A p \in Callers :
    /\ lookups[p].attempts <= 1
    /\ Done(p) =>
         /\ (lookups[p].seen # Null /\ ~lookups[p].seenFresh)
              => lookups[p].attempts = 1
         /\ (lookups[p].from # Null /\ lookups[p].fromStale)
              => lookups[p].attempts = 1

C17_Witness ==
  \E p \in Callers :
    /\ Done(p)
    /\ lookups[p].seen # Null
    /\ ~lookups[p].seenFresh
    /\ lookups[p].fromStale
    /\ lookups[p].attempts = 1
    /\ lookups[p].outcome = "throws"
    /\ lookups[p].from = lookups[p].seen

\* C18: a lookup whose refresh has failed (the fetch throws, the body is
\* empty, the body does not parse) is answered from the snapshot that was
\* cached when the refresh came back, and returns nothing when there was none.
C18_RefreshFailureServesPrevious ==
  \A p \in Callers :
    (Done(p) /\ lookups[p].outcome \in {"throws", "empty", "unparsable"}) =>
      /\ lookups[p].from = lookups[p].prev
      /\ lookups[p].result =
           IF lookups[p].prev # Null
             THEN resolveSharePointUrl(lookups[p].prev.doc, lookups[p].title)
             ELSE Undefined

\* C19: with the bucket configured, the first lookup after an invalidation
\* sends a fetch and is not answered from a snapshot the store had served
\* before that invalidation.
C19_LookupAfterInvalidationRefetches ==
  \A p \in Callers :
    (Done(p) /\ lookups[p].first /\ bucketSet) =>
      /\ lookups[p].attempts = 1
      /\ lookups[p].from # Null => lookups[p].from.served >= lookups[p].epoch

\* ------------------------------------------------------------ the resolver
\* a call of resolveSharePointUrl(title) over one snapshot
ResolveInit ==
  /\ ChatIdle
  /\ CodecIdle
  /\ InputIdle
  /\ ConvApiStart
  /\ ReaderIdle
  /\ CacheStart
  /\ bucketSet = TRUE
  /\ lookupTitle \in Titles
  /\ lookupMappings \in MappingsUpTo(MaxEntries)
  /\ resolved = "none"

Resolve ==
  /\ resolved = "none"
  /\ resolved' = resolveSharePointUrl(lookupMappings, lookupTitle)
  /\ UNCHANGED <<lookupTitle, lookupMappings>>
  /\ UNCHANGED cacheVars
  /\ UNCHANGED besideMapping

ResolveSpec == ResolveInit /\ [][Resolve]_vars

\* the URL the three strategies yield, taken in their order over the entries
\* of m: the entry whose key is t; else the first entry whose fileName is t;
\* else the first entry whose fileName, or fileName without extension, is part
\* of t or whose fileName contains t; else nothing
StrategiesInOrder(m, t) ==
  IF \E i \in 1..Len(m) : m[i].key = t
    THEN m[CHOOSE i \in 1..Len(m) : m[i].key = t].sharePointUrl
  ELSE IF \E i \in 1..Len(m) : m[i].fileName = t
    THEN m[FirstIndex({i \in 1..Len(m) : m[i].fileName = t})].sharePointUrl
  ELSE IF \E i \in 1..Len(m) : PartialMatch(t, m[i])
    THEN m[FirstIndex({i \in 1..Len(m) : PartialMatch(t, m[i])})].sharePointUrl
  ELSE Undefined

\* C20: called with a title that is not empty, resolveSharePointUrl returns
\* what the three strategies yield in their fixed order over the snapshot, an
\* exact key match winning over the fileName or partial match of another entry.
C20_StrategyOrder ==
  (resolved # "none" /\ lookupTitle # <<>>) =>
    resolved = StrategiesInOrder(lookupMappings, lookupTitle)

\* ------------------------------------------------------------ the codec
\* the characters of a payload: a letter, the newline, the characters
\* JSON.stringify escapes, the space
PayloadChars == {"a", NL, QUOTE, BSL, SP}

RECURSIVE StringsUpTo(_)
StringsUpTo(n) ==
  IF n = 0 THEN {<<>>}
  ELSE StringsUpTo(n - 1)
       \cup {Append(s, c) : s \in {t \in StringsUpTo(n - 1) : Len(t) = n - 1},
                            c \in PayloadChars}

\* short payloads, and payloads that look like framing: "\n\ndata: " and a
\* blank line after text
Payloads ==
  StringsUpTo(MaxPayload) \cup {Delim \o Prefix, <<"a">> \o Delim \o <<"a">>}

\* the citation lists the route may send
CitationLists ==
  {CitationsFrom(u.chunks, 1) : u \in Units}
  \cup {CitationsFrom(u.chunks, 1) \o CitationsFrom(u.chunks, 1) : u \in Units}

\* every variant of the event
CodecEvents ==
  {TextEvent(s) : s \in Payloads} \cup {TitleEvent(s) : s \in Payloads}
  \cup {CitationsEvent(cs) : cs \in CitationLists} \cup {ErrorEvent, DoneEvent}

CodecInit ==
  /\ ChatIdle
  /\ MappingIdle
  /\ InputIdle
  /\ ConvApiStart
  /\ ReaderIdle
  /\ codecEvent \in CodecEvents
  /\ codecFrame = <<>>
  /\ codecDecoded = <<>>

\* route.ts 116-193: the frame of the event is written
Encode ==
  /\ codecFrame = <<>>
  /\ codecFrame' = Frame(codecEvent)
  /\ UNCHANGED <<codecEvent, codecDecoded>>
  /\ UNCHANGED <<chatVars, mappingVars, inputVars, convApiVars, readerVars>>

\* Chat.tsx 530-572: the frame arrives in one read and is decoded
Decode ==
  /\ codecFrame # <<>>
  /\ codecDecoded = <<>>
  /\ codecDecoded' = DecodeWhole(codecFrame)
  /\ UNCHANGED <<codecEvent, codecFrame>>
  /\ UNCHANGED <<chatVars, mappingVars, inputVars, convApiVars, readerVars>>

CodecNext ==
  \/ Encode
  \/ Decode

CodecSpec == CodecInit /\ [][CodecNext]_vars

\* the places of s where the frame delimiter begins
DelimitersIn(s) == {i \in 1..(Len(s) - 1) : SubSeq(s, i, i + 1) = Delim}

\* C21: the frame written for an event holds the frame delimiter at its end
\* and nowhere else, and the event the component decodes from the frame is
\* encoded to the same frame again.
C21_FrameRoundTrip ==
  /\ codecFrame # <<>> => DelimitersIn(codecFrame) = {Len(codecFrame) - 1}
  /\ codecDecoded # <<>> =>
       /\ Len(codecDecoded) = 1
       /\ Frame(codecDecoded[1]) = codecFrame

C21_Witness ==
  /\ codecEvent = TextEvent(Delim \o Prefix)
  /\ codecDecoded = <<codecEvent>>

\* ------------------------------------------------------------ the input
\* an outer catch that keeps every message of before the turn
CatchOfUnfiltered(sent) == sent \o <<UserMsg(Question), ErrorMessage>>

\* an outer catch that drops every assistant message of before the turn
CatchOfUsersOnly(sent) ==
  SelectSeq(sent, LAMBDA m : m.role # "assistant")
  \o <<UserMsg(Question), ErrorMessage>>

\* Chat.tsx 582-588: the list the outer catch of an invocation passes on
CatchOf(sent) ==
  SelectSeq(sent, LAMBDA m : ~(m.role = "assistant" /\ m.content = <<>>))
  \o <<UserMsg(Question), ErrorMessage>>

\* what the invocations followed here leave alone
besideInput ==
  <<serverVars, cpc, sentMessages, userMessage, accumulatedContent,
    clientCitations, listTitle, ended, decoded, turn, mappingVars, codecVars,
    convApiVars, readerVars, contents>>

InputInit ==
  /\ ChatIdle
  /\ MappingIdle
  /\ CodecIdle
  /\ InputIdle
  /\ ConvApiStart
  /\ ReaderIdle

\* a sendMessage without its finally
LoadingKeptAfterFinally == TRUE

\* Chat.tsx 589-591: finally { setIsLoading(false) }
LoadingAfterFinally == FALSE

\* MessageInput.tsx 21-27 and Chat.tsx 473-500: a submit of the input starts
\* an invocation of sendMessage, which shows the user message and sets
\* isLoading
Submit(i) ==
  /\ calls[i].pc = "idle"
  /\ \A j \in 1..(i - 1) : calls[j].pc # "idle"
  /\ ~InputDisabled
  /\ calls' = [calls EXCEPT ![i] = [pc |-> "fetching", messages |-> messages,
                                    accumulatedContent |-> <<>>, ended |-> "none"]]
  /\ messages' = messages \o <<UserMsg(Question)>>
  /\ isLoading' = TRUE
  /\ UNCHANGED besideInput

\* Chat.tsx 492-504 and 575-591: fetch rejects or the response is not OK
RequestFails(i) ==
  /\ calls[i].pc = "fetching"
  /\ \E how \in {"fetchThrew", "notOk"} :
       calls' = [calls EXCEPT ![i].pc = "ended", ![i].ended = how]
  /\ messages' = CatchOf(calls[i].messages)
  /\ isLoading' = LoadingAfterFinally
  /\ UNCHANGED besideInput

\* Chat.tsx 506-521 and 575-591: the response is OK and has no body; the
\* placeholder is passed on and the throw that follows replaces it in the
\* same tick
NoBody(i) ==
  /\ calls[i].pc = "fetching"
  /\ calls' = [calls EXCEPT ![i].pc = "ended", ![i].ended = "noBody"]
  /\ messages' = CatchOf(calls[i].messages)
  /\ isLoading' = LoadingAfterFinally
  /\ UNCHANGED besideInput

\* Chat.tsx 506-524: the response is OK, the placeholder is shown
ResponseArrives(i) ==
  /\ calls[i].pc = "fetching"
  /\ calls' = [calls EXCEPT ![i].pc = "reading"]
  /\ messages' = calls[i].messages \o <<UserMsg(Question), Placeholder>>
  /\ UNCHANGED isLoading
  /\ UNCHANGED besideInput

\* Chat.tsx 526-551: a read that holds one text event
ReadsText(i) ==
  /\ calls[i].pc = "reading"
  /\ Len(calls[i].accumulatedContent) < MaxUnits
  /\ LET acc == calls[i].accumulatedContent \o <<"a">> IN
       /\ calls' = [calls EXCEPT ![i].accumulatedContent = acc]
       /\ messages' = calls[i].messages
                      \o <<UserMsg(Question), Msg("assistant", acc, <<>>)>>
  /\ UNCHANGED isLoading
  /\ UNCHANGED besideInput

\* Chat.tsx 527-528 and 589-591: the stream is over
ReadEnds(i) ==
  /\ calls[i].pc = "reading"
  /\ calls' = [calls EXCEPT ![i].pc = "ended", ![i].ended = "closed"]
  /\ isLoading' = LoadingAfterFinally
  /\ UNCHANGED messages
  /\ UNCHANGED besideInput

\* Chat.tsx 527 and 575-591: reader.read() rejects
ReadFails(i) ==
  /\ calls[i].pc = "reading"
  /\ calls' = [calls EXCEPT ![i].pc = "ended", ![i].ended = "readThrew"]
  /\ messages' = CatchOf(calls[i].messages)
  /\ isLoading' = LoadingAfterFinally
  /\ UNCHANGED besideInput

InputNext ==
  \E i \in 1..MaxSubmits :
    \/ Submit(i)
    \/ RequestFails(i)
    \/ NoBody(i)
    \/ ResponseArrives(i)
    \/ ReadsText(i)
    \/ ReadEnds(i)
    \/ ReadFails(i)

InputSpec == InputInit /\ [][InputNext]_vars

\* the invocations of sendMessage that have begun and not reached finally
InFlight == {i \in 1..MaxSubmits : calls[i].pc \in {"fetching", "reading"}}

\* the assistant messages of state that an invocation is still writing
InProgress ==
  {k \in 1..Len(messages) :
     \E i \in InFlight :
       /\ calls[i].pc = "reading"
       /\ k = Len(calls[i].messages) + 2
       /\ messages[k].role = "assistant"}

\* C22: at most one invocation of sendMessage is in flight; isLoading is true
\* while one is, which disables the input; the messages hold at most one
\* assistant message that is still being written.
C22_OneTurnInFlight ==
  /\ Cardinality(InFlight) <= 1
  /\ InFlight # {} => isLoading
  /\ Cardinality(InProgress) <= 1

C22_Witness ==
  /\ calls[1].pc = "ended"
  /\ calls[2].pc = "reading"
  /\ calls[2].accumulatedContent # <<>>


\* ------------------------------------------------------------ the title
\* C23: a title that is stored for the conversation is not overwritten by
\* any later turn of the chat route.
C23_TitleSetOnce ==
  [][dbConv.title # NoTitle => dbConv'.title = dbConv.title]_vars


\* ------------------------------------------------------------ updatedAt
\* C24: every message the chat route appends to a conversation comes with a
\* write that advances updatedAt.  Counted over a turn in which nothing
\* throws: when the response is closed, updatedAt has advanced at least once
\* for each message of the conversation.
C24_AppendAdvancesUpdatedAt ==
  (spc = "closed" /\ failed = {}) => dbConv.updatedAt >= Len(dbMessages)


\* ------------------------------------------------------------ failed requests
\* the invocation that began last, 0 when there is none
LastCall ==
  IF \A i \in 1..MaxSubmits : calls[i].pc = "idle" THEN 0
  ELSE CHOOSE i \in 1..MaxSubmits :
         /\ calls[i].pc # "idle"
         /\ \A j \in (i + 1)..MaxSubmits : calls[j].pc = "idle"

EmptyAssistant(m) == m.role = "assistant" /\ m.content = <<>>

Count(list, m) == Cardinality({k \in 1..Len(list) : list[k] = m})

\* C25: a turn whose response was not OK or had no body ends with the user
\* message and one error message of the assistant after it, with no empty
\* assistant message in the list, the messages of before the turn being
\* otherwise as they were, and with the input enabled again.
C25_FailedRequestEndsInErrorMessage ==
  LastCall # 0 =>
    LET c == calls[LastCall] IN
    c.ended \in {"notOk", "noBody"} =>
      /\ Len(messages) >= 2
      /\ messages[Len(messages) - 1] = UserMsg(Question)
      /\ messages[Len(messages)] = ErrorMessage
      /\ Count(messages, ErrorMessage) = Count(c.messages, ErrorMessage) + 1
      /\ Count(messages, UserMsg(Question)) = Count(c.messages, UserMsg(Question)) + 1
      /\ \A k \in 1..Len(messages) : ~EmptyAssistant(messages[k])
      /\ ~isLoading
      /\ ~InputDisabled

\* a turn that had no body, after a turn that left its placeholder empty
C25_Witness ==
  /\ LastCall = 2
  /\ calls[2].ended = "noBody"
  /\ \E k \in 1..Len(calls[2].messages) : EmptyAssistant(calls[2].messages[k])


\* ------------------------------------------------------------ overlapping loads
\* the step is the write of the cache by the load of caller p: the snapshot
\* the load has parsed, with the time at which the load began
WrittenBy(p) ==
  /\ lookups[p].pc = "responded"
  /\ lookups[p].outcome = "ok"
  /\ lookups'[p].pc = "done"
  /\ cachedMappings' = lookups[p].body
  /\ cacheTimestamp' = lookups[p].now

\* C26: the snapshot and the timestamp of the cache are always written
\* together by one load, the one that has just completed, as the snapshot
\* of that load and the time at which that load began; beside that the cache
\* changes only by being invalidated.  So after overlapping loads the cache
\* holds the pair of the load that completed last.
C26_CacheWrittenByOneLoad ==
  [][(cachedMappings' # cachedMappings \/ cacheTimestamp' # cacheTimestamp) =>
       \/ \E p \in Callers : WrittenBy(p)
       \/ (cachedMappings' = Null /\ cacheTimestamp' = 0
           /\ invalidations' = invalidations + 1)]_vars

\* two loads overlapped and both succeeded; the one that began first, and
\* earlier on the clock, completed last
C26_Witness ==
  /\ \A p \in {1, 2} : Done(p) /\ lookups[p].outcome = "ok"
  /\ lookups[2].seen = Null
  /\ lookups[1].prev # Null
  /\ invalidations = 0
  /\ cachedMappings # Null
  /\ cacheTimestamp = StartTime
  /\ loadedAt > StartTime


\* ------------------------------------------------------------ /api/conversations
\* a where clause that leaves out the owner
OwnedByAnyone(row, userId) == TRUE

\* eq(conversations.clerkUserId, userId)
OwnedBy(row, userId) == row.owner = userId

\* and(eq(conversations.id, id), eq(conversations.clerkUserId, userId))
Matching(id, userId) == convRows[id].exists /\ OwnedBy(convRows[id], userId)

\* the columns a response carries of a row of conversations
Returned(id) ==
  [id |-> id, title |-> convRows[id].title, updatedAt |-> convRows[id].updatedAt]

\* the callers: a signed-in user, or nobody
ApiCallers == Users \cup {NoUser}

Respond(op, caller, id, status, body, statements) ==
  [op |-> op, caller |-> caller, id |-> id, status |-> status, body |-> body,
   statements |-> statements]

\* if (!userId) return 401, before any statement
Unauthorized(op, id) == Respond(op, NoUser, id, 401, Body({}, <<>>), 0)

NotFound(op, caller, id) == Respond(op, caller, id, 404, Body({}, <<>>), 1)

\* [id]/route.ts 9-34: GET
GetConversation ==
  /\ \E u \in ApiCallers, id \in ConvIds :
       apiCall' = IF u = NoUser THEN Unauthorized("get", id)
                  ELSE IF Matching(id, u)
                    THEN Respond("get", u, id, 200, Body({Returned(id)}, <<>>), 1)
                  ELSE NotFound("get", u, id)
  /\ UNCHANGED <<convRows, msgRows, pendingMessages>>
  /\ UNCHANGED <<chatVars, mappingVars, codecVars, inputVars, readerVars>>

\* [id]/route.ts 36-51: DELETE.  The answer is success whether or not a row
\* matched.  Whether the messages of a deleted conversation go with it is
\* for the schema, which either cascades or does not.
DeleteConversation ==
  /\ \E u \in ApiCallers, id \in ConvIds, cascade \in BOOLEAN :
       IF u = NoUser
       THEN /\ apiCall' = Unauthorized("delete", id)
            /\ UNCHANGED <<convRows, msgRows>>
       ELSE /\ convRows' = IF Matching(id, u)
                             THEN [convRows EXCEPT ![id].exists = FALSE]
                             ELSE convRows
            /\ msgRows' = IF Matching(id, u) /\ cascade
                            THEN SelectSeq(msgRows, LAMBDA m : m.conversationId # id)
                            ELSE msgRows
            /\ apiCall' = Respond("delete", u, id, 200, Body({}, <<>>), 1)
  /\ UNCHANGED pendingMessages
  /\ UNCHANGED <<chatVars, mappingVars, codecVars, inputVars, readerVars>>

\* [id]/route.ts 53-81: PATCH
PatchConversation ==
  /\ \E u \in ApiCallers, id \in ConvIds, title \in {<<"P">>} :
       IF u = NoUser
       THEN /\ apiCall' = Unauthorized("patch", id)
            /\ UNCHANGED convRows
       ELSE IF Matching(id, u)
       THEN /\ convRows[id].updatedAt < MaxPatches
            /\ convRows' = [convRows EXCEPT ![id].title = title,
                                            ![id].updatedAt = @ + 1]
            /\ apiCall' = Respond("patch", u, id, 200,
                                  Body({[id |-> id, title |-> title,
                                         updatedAt |-> convRows[id].updatedAt + 1]},
                                       <<>>), 1)
       ELSE /\ apiCall' = NotFound("patch", u, id)
            /\ UNCHANGED convRows
  /\ UNCHANGED <<msgRows, pendingMessages>>
  /\ UNCHANGED <<chatVars, mappingVars, codecVars, inputVars, readerVars>>

\* [id]/messages/route.ts 9-28: GET of the messages, up to the answer of the
\* ownership query
GetMessagesCheck ==
  /\ pendingMessages = NoPending
  /\ \E u \in ApiCallers, id \in ConvIds :
       IF u = NoUser
       THEN /\ apiCall' = Unauthorized("messages", id)
            /\ UNCHANGED pendingMessages
       ELSE IF Matching(id, u)
       THEN /\ pendingMessages' = [caller |-> u, id |-> id]
            /\ UNCHANGED apiCall
       ELSE /\ apiCall' = NotFound("messages", u, id)
            /\ UNCHANGED pendingMessages
  /\ UNCHANGED <<convRows, msgRows>>
  /\ UNCHANGED <<chatVars, mappingVars, codecVars, inputVars, readerVars>>

\* [id]/messages/route.ts 30-42: the select of the messages and the answer
GetMessagesSelect ==
  /\ pendingMessages # NoPending
  /\ apiCall' = Respond("messages", pendingMessages.caller, pendingMessages.id, 200,
                        Body({}, SelectSeq(msgRows,
                                           LAMBDA m : m.conversationId = pendingMessages.id)),
                        2)
  /\ pendingMessages' = NoPending
  /\ UNCHANGED <<convRows, msgRows>>
  /\ UNCHANGED <<chatVars, mappingVars, codecVars, inputVars, readerVars>>

\* route.ts 5-24: GET of the list
ListConversations ==
  /\ \E u \in ApiCallers :
       apiCall' = IF u = NoUser THEN Unauthorized("list", 0)
                  ELSE Respond("list", u, 0, 200,
                               Body({Returned(id) : id \in {i \in ConvIds : Matching(i, u)}},
                                    <<>>), 1)
  /\ UNCHANGED <<convRows, msgRows, pendingMessages>>
  /\ UNCHANGED <<chatVars, mappingVars, codecVars, inputVars, readerVars>>

ConvApiInit ==
  /\ ChatIdle
  /\ MappingIdle
  /\ CodecIdle
  /\ InputIdle
  /\ ConvApiStart
  /\ ReaderIdle

ConvApiNext ==
  \/ GetConversation
  \/ DeleteConversation
  \/ PatchConversation
  \/ GetMessagesCheck
  \/ GetMessagesSelect
  \/ ListConversations

ConvApiSpec == ConvApiInit /\ [][ConvApiNext]_vars

\* the conversations a response carries something of
Reveals(r) ==
  {row.id : row \in r.body.rows}
  \cup {r.body.messages[k].conversationId : k \in 1..Len(r.body.messages)}

\* the response answered last carries nothing to a caller who is not signed
\* in, who gets 401 before any statement, and nothing of a conversation that
\* is not the caller's
ResponseSafe ==
  /\ (apiCall.op # "none" /\ apiCall.caller = NoUser) =>
       (apiCall.status = 401 /\ apiCall.statements = 0 /\ Reveals(apiCall) = {})
  /\ \A id \in Reveals(apiCall) : convRows[id].owner = apiCall.caller

\* the step changes or deletes a conversation, or deletes a message, only
\* on a request of its owner
ChangeSafe ==
  /\ \A id \in ConvIds :
       (convRows[id].exists /\ convRows'[id] # convRows[id]) =>
         (apiCall'.caller = convRows[id].owner /\ apiCall'.id = id)
  /\ \A k \in 1..Len(msgRows) :
       (\A j \in 1..Len(msgRows') : msgRows'[j] # msgRows[k]) =>
         apiCall'.caller = convRows[msgRows[k].conversationId].owner

\* C27: the conversation endpoints return, change and delete a conversation
\* and its messages only for the signed-in owner; a caller who is not signed
\* in gets 401 before any statement runs; a call on a conversation of
\* another user returns and changes nothing of it.
C27_OwnerOnly == [][ResponseSafe' /\ ChangeSafe]_vars

\* u2 tried to rename the conversation of u1 after u1 had renamed it
C27_Witness ==
  /\ apiCall.op = "patch"
  /\ apiCall.caller = "u2"
  /\ apiCall.id = 1
  /\ apiCall.status = 404
  /\ convRows[1] = ConvRow(TRUE, "u1", <<"P">>, 1)


\* ------------------------------------------------------------ the citations event
\* the events the step enqueues
NewEvents == SubSeq(events', Len(events) + 1, Len(events'))

\* the step consumes one unit of the upstream stream
UnitStep == unitsSeen' # unitsSeen

\* the step in which the for-await loop ends without a throw
UpstreamExhaustedStep ==
  /\ spc = "streaming"
  /\ spc' # "streaming"
  /\ ~UnitStep
  /\ "upstreamStream" \notin failed'

\* C28: the citations event is enqueued in the step in which the upstream
\* stream is exhausted and in no other, once, holding the citations collected
\* from the units in the order in which they were collected (each unit adds
\* its citations at the end of the list); no citations event is enqueued
\* when nothing was collected.
C28_OneCitationsEventAtEnd ==
  [][LET cits == SelectSeq(NewEvents, LAMBDA e : e.type = "citations") IN
       /\ UpstreamExhaustedStep =>
            cits = IF citations = <<>> THEN <<>> ELSE <<CitationsEvent(citations)>>
       /\ ~UpstreamExhaustedStep => cits = <<>>
       /\ cits # <<>> => ~HasEvent("citations")
       /\ UnitStep =>
            \E u \in Units :
              /\ unitsSeen' = Append(unitsSeen, u.text)
              /\ citations' = citations \o CitationsFrom(u.chunks, 1)
       /\ (~UnitStep /\ spc # "idle") => citations' = citations]_vars

\* a turn in which two units each brought a citation
C28_Witness ==
  /\ spc = "closed"
  /\ Len(citations) = 2
  /\ Len(unitsSeen) = 2
  /\ events = <<CitationsEvent(citations), DoneEvent>>


\* ------------------------------------------------------------ text deltas
\* the text of the unit the step consumes
UnitText == unitsSeen'[Len(unitsSeen')]

\* C29: the step that consumes a unit with text enqueues one text event,
\* which carries the text of that unit, and nothing else; the step that
\* consumes a unit without text enqueues nothing; no other step enqueues a
\* text event.
C29_TextEventPerUnit ==
  [][/\ UnitStep =>
          /\ unitsSeen' = Append(unitsSeen, UnitText)
          /\ UnitText \in {u.text : u \in Units}
          /\ NewEvents = IF UnitText # <<>> THEN <<TextEvent(UnitText)>> ELSE <<>>
     /\ ~UnitStep => SelectSeq(NewEvents, LAMBDA e : e.type = "text") = <<>>]_vars

\* two units with text, each sent as it came, the second made of three parts
C29_Witness ==
  /\ spc = "streaming"
  /\ unitsSeen = <<<<"a">>, <<"b", NL>>>>
  /\ events = <<TextEvent(<<"a">>), TextEvent(<<"b", NL>>)>>

\* ------------------------------------------------------------ empty units
\* the step consumes a unit that yields neither text nor citations
EmptyUnitStep ==
  /\ UnitStep
  /\ UnitText = <<>>
  /\ citations' = citations

\* C30: the step that consumes a unit without candidates, without content
\* parts and without grounding chunks enqueues nothing, leaves fullResponse
\* and the citations as they were, and leaves the loop running.
C30_EmptyUnitSkipped ==
  [][EmptyUnitStep =>
       /\ NewEvents = <<>>
       /\ wire' = wire
       /\ fullResponse' = fullResponse
       /\ spc' = "streaming"
       /\ closed' = closed
       /\ failed' = failed]_vars

\* a unit with text was relayed after an empty unit
C30_Witness ==
  /\ spc = "closed"
  /\ unitsSeen = <<<<>>, <<"a">>>>
  /\ citations = <<>>
  /\ events = <<TextEvent(<<"a">>), DoneEvent>>


\* ------------------------------------------------------------ the read loop
\* Chat.tsx lines 526-574 against any response body: the component has sent
\* its request, the server has written the whole body and closed it.

\* a frame whose payload is cut short: JSON.parse throws on it
MalformedFrame == Prefix \o <<"{", "t">> \o Delim

\* the frames a body is made of
FramePool ==
  {Frame(TextEvent(<<"a">>)), Frame(TitleEvent(<<"T">>)), Frame(DoneEvent),
   MalformedFrame}
  \cup {Frame(CitationsEvent(cs)) : cs \in CitationLists \ {<<>>}}

RECURSIVE StreamsUpTo(_)
StreamsUpTo(n) ==
  IF n = 0 THEN {<<>>}
  ELSE LET shorter == StreamsUpTo(n - 1)
       IN shorter \cup {f \o s : f \in FramePool, s \in shorter}

Streams == StreamsUpTo(MaxFrames)

\* the conversation the body is read in: one earlier turn, answered
Answered == {p \in Priors : Len(p.dbMessages) = 2}

\* lines 473-500 have run: the user message is shown, the request has left
ClientInit ==
  /\ \E p \in Answered :
       /\ messages = p.messages \o <<UserMsg(Question)>>
       /\ sentMessages = p.messages
       /\ req = [userId |-> ConvOwner, conversationId |-> ConvId,
                 message |-> Question, history |-> p.messages]
       /\ dbMessages = p.dbMessages
       /\ dbConv = p.dbConv
       /\ listTitle = p.listTitle
  /\ stream \in Streams
  /\ wire = stream
  /\ spc = "closed"
  /\ response = "stream"
  /\ closed = TRUE
  /\ abandoned = FALSE
  /\ fullResponse = <<>>
  /\ citations = <<>>
  /\ events = <<>>
  /\ unitsSeen = <<>>
  /\ failed = {}
  /\ userMessage = UserMsg(Question)
  /\ isLoading = TRUE
  /\ cpc = "fetching"
  /\ accumulatedContent = <<>>
  /\ clientCitations = <<>>
  /\ ended = "none"
  /\ decoded = <<>>
  /\ turn = 1
  /\ contents = ContentsOf(req.history, req.message)
  /\ MappingIdle
  /\ CodecIdle
  /\ InputIdle
  /\ ConvApiStart

ClientNext == ReceiveResponse \/ ReadChunk \/ ReadDone \/ ReadThrows

ClientSpec == ClientInit /\ [][ClientNext]_vars

\* a segment that starts with the frame prefix and whose payload does not parse
Malformed(seg) ==
  StartsWith(seg, Prefix) /\ ~JsonParse(Drop(seg, Len(Prefix))).ok

\* the state of the read loop before a read
LoopState ==
  [acc |-> accumulatedContent, cits |-> clientCitations, msgs |-> messages,
   title |-> listTitle, decoded |-> decoded, threw |-> FALSE]

\* the segments of the chunk a step has read
ChunkRead == Segments(Take(wire, Len(wire) - Len(wire')))

\* C31: a segment of a read that starts with the frame prefix and whose
\* payload does not parse is dropped: a read leaves the component in the state
\* the other segments of the read alone lead to, applied in their order, the
\* loop goes on reading and isLoading stays true.
C31_MalformedSegmentDropped ==
  [][(cpc = "reading" /\ wire' # wire) =>
       \E st \in {ApplySegments(LoopState,
                                SelectSeq(ChunkRead, LAMBDA s : ~Malformed(s)))} :
          /\ messages' = st.msgs
          /\ accumulatedContent' = st.acc
          /\ clientCitations' = st.cits
          /\ listTitle' = st.title
          /\ decoded' = st.decoded
          /\ cpc' = "reading"
          /\ isLoading'
          /\ ended' = ended]_vars

\* a body of a malformed frame and a text frame has been read to its end, and
\* the text of the second frame is the content of the assistant message
C31_Witness ==
  /\ stream = MalformedFrame \o Frame(TextEvent(<<"a">>))
  /\ ended = "closed"
  /\ decoded = <<TextEvent(<<"a">>)>>
  /\ messages = sentMessages \o <<userMessage, Msg("assistant", <<"a">>, <<>>)>>

\* what JSON.parse makes of the segments of a chunk that start with the prefix
ParsedOf(segs) ==
  LET prefixed == SelectSeq(segs, LAMBDA s : StartsWith(s, Prefix))
  IN [i \in 1..Len(prefixed) |-> JsonParse(Drop(prefixed[i], Len(Prefix)))]

\* the events of the segments that parse, in their order
EventsOf(parsed) ==
  LET ok == SelectSeq(parsed, LAMBDA d : d.ok)
  IN [i \in 1..Len(ok) |-> ok[i].event]

CitationsIn(evs) == SelectSeq(evs, LAMBDA e : e.type = "citations")

TextIn(evs) ==
  LET texts == SelectSeq(evs, LAMBDA e : e.type = "text")
  IN Flatten([i \in 1..Len(texts) |-> texts[i].content])

\* C32: after a read the citation list of the assistant message in progress
\* is exactly the list of the last citations event of the read, or the list
\* it was when the read held none; the content is what it was followed by the
\* text of the text events of the read, whatever citations events came with
\* them, and the messages before the assistant message are the ones of the
\* turn.
C32_CitationsReplaced ==
  [][(cpc = "reading" /\ wire' # wire) =>
       \E evs \in {EventsOf(ParsedOf(ChunkRead))} :
         \E cits \in {CitationsIn(evs)}, text \in {TextIn(evs)} :
           /\ clientCitations' =
                (IF cits = <<>> THEN clientCitations ELSE cits[Len(cits)].citations)
           /\ accumulatedContent' = accumulatedContent \o text
           /\ messages' =
                (IF cits = <<>> /\ text = <<>> THEN messages
                 ELSE sentMessages
                      \o <<userMessage,
                           Msg("assistant", accumulatedContent', clientCitations')>>)]_vars

\* a body of two citations events with different lists has been read to its
\* end: the assistant message holds the second list only
C32_Witness ==
  \E first, second \in CitationLists \ {<<>>} :
    /\ first # second
    /\ stream = Frame(CitationsEvent(first)) \o Frame(CitationsEvent(second))
    /\ ended = "closed"
    /\ clientCitations = second
    /\ messages = sentMessages \o <<userMessage, Msg("assistant", <<>>, second)>>

\* the title events among evs
TitleEventsIn(evs) == SelectSeq(evs, LAMBDA e : e.type = "title")

\* C33: a step of a turn that emits a title event is a step of a turn whose
\* request has an empty history, taken after the upstream stream was
\* exhausted with non-empty text and the assistant message saved, and it
\* leaves the conversation with the title of the event; a step of a turn
\* whose request has a non-empty history emits no title event and leaves the
\* title of the conversation alone.
C33_TitleOnlyOnFirstExchange ==
  [][/\ TitleEventsIn(events') # TitleEventsIn(events) =>
          /\ req.history = <<>>
          /\ spc = "title"
          /\ fullResponse # <<>>
          /\ dbMessages # <<>>
          /\ dbMessages[Len(dbMessages)] =
               Row(req.conversationId, "assistant", fullResponse, citations)
          /\ TitleEventsIn(events') = <<TitleEvent(dbConv'.title)>>
     /\ (spc # "idle" /\ req.history # <<>>) =>
          /\ dbConv'.title = dbConv.title
          /\ TitleEventsIn(events') = <<>>]_vars

\* a first exchange has ended with the title event of the title the
\* conversation now has
C33_Witness ==
  /\ spc = "closed"
  /\ req.history = <<>>
  /\ dbConv.title # NoTitle
  /\ TitleEventsIn(events) = <<TitleEvent(dbConv.title)>>

\* ------------------------------------------------------------ the request
\* the route, called by the component or by any client; what the component
\* does with the response is left out
RequestNext ==
  \/ SendMessage
  \/ FetchThrows
  \/ RouteNext

RequestSpec == TurnInit /\ [][RequestNext]_vars

\* C34: the request the component sends carries as history the messages it
\* held before the turn, without the new user message, which is the message
\* of the request; the contents submitted upstream are the messages of the
\* history in their order, a user message with role user and any other with
\* role model, each with its content, followed by one entry of role user
\* with the message of the request.
C34_UpstreamContents ==
  [][/\ (cpc = "idle" /\ cpc' = "fetching") =>
          /\ req'.history = messages
          /\ messages' = messages \o <<UserMsg(req'.message)>>
     /\ contents' # contents =>
          /\ Len(contents') = Len(req.history) + 1
          /\ \A i \in 1..Len(req.history) :
               /\ contents'[i].text = req.history[i].content
               /\ contents'[i].role =
                    (IF req.history[i].role = "user" THEN "user" ELSE "model")
          /\ contents'[Len(contents')] = Content("user", req.message)
          /\ spc = "call"]_vars

\* the component has sent a turn from a conversation of two messages and the
\* upstream request holds them as user and model, then the new message
C34_Witness ==
  /\ cpc = "fetching"
  /\ Len(sentMessages) = 2
  /\ sentMessages[2].role = "assistant"
  /\ contents = <<Content("user", sentMessages[1].content),
                  Content("model", sentMessages[2].content),
                  Content("user", userMessage.content)>>

\* ------------------------------------------------------------ termination
\* fetch settles: it rejects, or resolves with a response
RequestSettles(i) == RequestFails(i) \/ NoBody(i) \/ ResponseArrives(i)

\* the response stream terminates: a read reports its end, or rejects
StreamTerminates(i) == ReadEnds(i) \/ ReadFails(i)

\* the invocations of sendMessage under the proviso that every request and
\* every response stream terminates
InputLiveSpec ==
  /\ InputInit
  /\ [][InputNext]_vars
  /\ \A i \in 1..MaxSubmits :
       WF_vars(RequestSettles(i)) /\ WF_vars(StreamTerminates(i))

\* C35: every invocation of sendMessage that has begun reaches its end, on
\* whichever path, with isLoading false at that moment; and whenever no
\* invocation is in flight isLoading is false.
C35_TurnEndsNotLoading ==
  /\ \A i \in 1..MaxSubmits :
       (calls[i].pc \in {"fetching", "reading"})
         ~> (calls[i].pc = "ended" /\ ~isLoading)
  /\ [](InFlight = {} => ~isLoading)

\* three turns have ended, by a response that was not OK, by a response
\* without body and by a read that threw, and isLoading is false
C35_Witness ==
  /\ calls[1].ended = "notOk"
  /\ calls[2].ended = "noBody"
  /\ calls[3].ended = "readThrew"
  /\ ~isLoading

\* ------------------------------------------------------------ the updates
\* the invocation of sendMessage that takes the step
Acting(i) == calls'[i] # calls[i]

\* list is P followed by the user message alone, or by the user message and
\* one message of the assistant
TurnForm(list, P) ==
  \/ list = P \o <<UserMsg(Question)>>
  \/ /\ Len(list) = Len(P) + 2
     /\ Take(list, Len(P)) = P
     /\ list[Len(P) + 1] = UserMsg(Question)
     /\ list[Len(P) + 2].role = "assistant"

\* the invocation has ended in the outer catch
Caught(c) == c.ended \in {"fetchThrew", "notOk", "noBody", "readThrew"}

Anonymous == req.userId = NoUser \/ req.conversationId = NoConv

\* the events of a turn in which nothing throws, the title event left out:
\* a text event for each unit with text, the citations event when citations
\* were collected, the done event
StreamOf(texts, cs) ==
  LET withText == SelectSeq(texts, LAMBDA t : t # <<>>)
  IN [i \in 1..Len(withText) |-> TextEvent(withText[i])]
     \o (IF cs # <<>> THEN <<CitationsEvent(cs)>> ELSE <<>>)
     \o <<DoneEvent>>

\* C37: no step of a turn without authenticated user or without
\* conversationId writes to the store: the messages and the conversation
\* (title, updatedAt) stay as they were, and no title event is emitted; and
\* the events of any turn that closes with nothing thrown, of the owner or
\* not, are the same function of the upstream units once the title event is
\* left out.
C37_AnonymousTurnWritesNothing ==
  [][/\ (spc # "idle" /\ Anonymous) =>
          /\ dbMessages' = dbMessages
          /\ dbConv' = dbConv
          /\ TitleEventsIn(events') = <<>>
     /\ (spc' = "closed" /\ failed' = {}) =>
          SelectSeq(events', LAMBDA e : e.type # "title")
            = StreamOf(unitsSeen', citations')]_vars

\* a turn without user on the conversation, with empty history, has closed
\* after text and citations: no title event, nothing thrown
C37_Witness ==
  /\ spc = "closed"
  /\ req.userId = NoUser
  /\ req.conversationId = ConvId
  /\ req.history = <<>>
  /\ failed = {}
  /\ fullResponse # <<>>
  /\ citations # <<>>
  /\ TypesOf(events) = <<"text", "citations", "done">>

\* ------------------------------------------------------------ the order
\* the turn is of the owner of the conversation it names
OwnedTurn == spc # "idle" /\ Owns(req.userId, req.conversationId)

\* the row of the user message of the turn
UserRow == Row(req.conversationId, "user", req.message, <<>>)

LastRow(rows) == rows[Len(rows)]

\* C38: in a turn of the owner, the step that calls the upstream model and
\* every step that emits an event find the user message of the turn as the
\* last row of the store, or followed by the assistant message alone; the
\* step that saves the assistant message appends it right after that user
\* row; and no step of the route, failing or not, removes or changes a row.
C38_UserMessageSavedFirst ==
  [][/\ Len(dbMessages') >= Len(dbMessages)
     /\ Take(dbMessages', Len(dbMessages)) = dbMessages
     /\ OwnedTurn =>
          /\ contents' # contents =>
               /\ dbMessages # <<>>
               /\ LastRow(dbMessages) = UserRow
               /\ events = <<>>
          /\ events' # events =>
               /\ contents # <<>>
               /\ \E k \in 1..Len(dbMessages) :
                    /\ dbMessages[k] = UserRow
                    /\ k >= Len(dbMessages) - 1
          /\ (dbMessages' # dbMessages /\ LastRow(dbMessages').role = "assistant") =>
               /\ dbMessages # <<>>
               /\ LastRow(dbMessages) = UserRow
               /\ contents # <<>>]_vars

\* the upstream call of a turn of the owner has thrown: the store ends with
\* the user message of the turn and no reply
C38_Witness ==
  /\ OwnedTurn
  /\ "upstreamCall" \in failed
  /\ contents # <<>>
  /\ events = <<>>
  /\ LastRow(dbMessages) = UserRow

====
